---- MODULE Spec2Model ----
(***************************************************************************)
(* Catalyst: event scoring, cooldown-gated dispatch and world/faction      *)
(* state.  The repository holds several independent components; each has  *)
(* its own specification below (SpecFS, SpecWS, ...), all over one set of  *)
(* variables, a component's actions leaving the other components alone.    *)
(***************************************************************************)
EXTENDS Integers, Sequences, FiniteSets, TLC

\* ---------------------------------------------------------------- bounds
MaxFactions == 2
MaxAlliances == 1
MaxDelta == 21
MaxStoreFactions == 2
MaxTime == 6
MaxStoreCalls == 5
MaxMessages == 2
MaxBotTime == 5
MaxLogs == 3
MaxWeeks == 2
MaxSubscribers == 2
MaxConstructs == 2
MaxGatewayMessages == 2
MaxEvents == 2
MaxLifeCalls == 3
MaxScTime == 7
MaxHandlers == 2
MaxMs == 2
MaxCreated == 3
MaxDuration == 2
MaxPending == 2
MaxEndRuns == 2

\* ------------------------------------------------------------- universes
UserIds == {"userA", "userB", "userC"}
NoFaction == 0
FactionIds == 1..MaxFactions
AuraDeltas == {-MaxDelta, -9, 9, MaxDelta}
StoreUserIds == {"userA", "userB"}
StoreFactionIds == 1..MaxStoreFactions
FactionNames == {"Wolves", "wolves"}

Min(a, b) == IF a < b THEN a ELSE b
Max(a, b) == IF a > b THEN a ELSE b

VARIABLES
  \* FactionSystem (core/dramaAnalytics.ts)
  factions,        \* Map<string, Faction>: function on the ids present
  userFactions,    \* Map<userId, factionId>; NoFaction = no entry
  alliances,       \* FactionAllianceData[]
  nextFactionId,   \* the next fresh faction id
  nextAllianceId,  \* the next fresh alliance id
  fsOp,            \* the last FactionSystem call and what it returned
  \* WorldStateManager (TODO.md) and the database adapter behind it
  users,           \* Collection<string, User>
  wsFactions,      \* Collection<string, Faction>  (field "factions")
  cache,           \* Map<string, CacheEntry>, keyed <<kind, id>>
  dbUsers,         \* rows of table users
  dbFactions,      \* rows of table factions
  wsNow,           \* Date.now(), in minutes
  nextStoreFactionId, \* the next fresh faction uuid
  wsDeleted,       \* ids for which deleteFaction has returned true
  wsCalls,         \* number of WorldStateManager calls made so far
  \* message pipeline: bot.ts handler, engine world, scorer, drama-events plugin
  world,           \* engine WorldState: users, dramaTimeline, lastEvent
  worldFile,       \* world_state.json as last written by saveWorldState
  lastTrigger,     \* DynamicEventGenerator.lastTrigger['Spotlight Challenge']; 0 = unset
  dramaTracker,    \* bot.ts dramaTracker: author -> mentioned user -> count
  dramaScores,     \* DramaAnalytics.dramaScores: user -> accumulated score
  recentMessages,  \* DramaAnalytics.recentMessages: Map<channelId, MessageData[]>
  buffer,          \* EventCaptureEngine.buffer: messages, reactions, voiceEvents,
                   \* mentionEvents, each an array, oldest entry first
  lastEventTime,   \* dramaEventsPlugin.lastEventTime
  announcements,   \* drama events the plugin has announced
  botNow,          \* Date.now(), in half hours
  msgCount,        \* message deliveries handled so far
  botOp,           \* the last message handler run and what it did
  \* persistent drama alliances: bot/drama.ts and the sweep of bot.ts
  dramaAlliances,  \* rows of table drama_alliances, in insertion order
  pairIndex,       \* the table has a unique index on (user_a, user_b, type)
  ddNow,           \* NOW(), in weeks
  nextRowId,       \* the next fresh row uuid
  ddOp,            \* the last call on the table and what it did
  \* event capture and buses: EventCaptureEngine, engine EventBus, bot.ts handler
  initialised,     \* EventCaptureEngine.initialised
  clientListeners, \* the client's 'messageCreate' listeners, in registration order
  listeners,       \* the capture emitter's 'message' listeners, in registration order
  handlers,        \* EventBus.handlers: event type -> handlers in registration order
  pending,         \* messages whose bot.ts handler awaits the toxicity fetch
  mutations,       \* world changes made by the bot.ts handler, in the order made
  nextMsg,         \* messages are numbered in gateway delivery order
  busOp,           \* the last capture / bus call and what it did
  \* WorldStateManager.logDramaEvent (TODO.md) and table drama_events
  events,          \* Map<string, DramaEvent>
  dbEvents,        \* rows of table drama_events
  writing,         \* events whose db.logDramaEvent call is awaited
  nextEventId,     \* the next fresh event uuid
  evOp,            \* the last step of logDramaEvent and what it did
  \* WorldStateManager life cycle (TODO.md)
  ready,           \* WorldStateManager.ready
  saveInterval,    \* the auto-save interval is armed (not cleared)
  stOp,            \* the last store call of the life-cycle specification
  \* serverControlPlugin (plugins/server-control/index.ts); time in units of 4 h
  chaosLevel,      \* config.chaosLevel
  lastReorganization,  \* config.lastReorganization
  scNow,           \* Date.now()
  reorgRunning,    \* reorganizeServer calls that are awaiting
  scOp,            \* the last step of the plug-in and what it did
  \* FactionSystemPlugin, the command plug-in (part_009)
  fcReady,         \* ready
  fcClient,        \* client !== null
  fcOp,             \* the last faction command and its outcome
  \* dramaEventsPlugin with its await (part_006)
  plPending,        \* the onMessage calls awaiting triggerDramaEvent
  \* WorldStateManager.getOrCreateUser with concurrent callers (TODO.md)
  guUsers,         \* users.get(id): the object held for the id, 0 for none
  guDb,            \* the id's row in the users table, NoRow for none
  guHeap,          \* the user object each caller constructed or fetched
  guRef,           \* the object each caller's local variable user refers to
  guPc,             \* where each caller is
  \* The ids of created DramaEvents (bot.ts, eventGenerator.ts,
  \* dramaAnalytics.ts, part_004); time in milliseconds
  msNow,           \* Date.now()
  createdEvents,   \* every DramaEvent constructed so far, in order
  localDramaEvents, \* localStore.dramaEvents
  lastEventId,      \* localStore.lastEventId
  \* PluginManager (part_014)
  plugins,         \* this.plugins: the ids of the loaded plug-ins
  pmOp,             \* the last call of the manager and its outcome
  \* ActionDispatcher's special modes (config.example.ts); time in minutes
  activeModes,     \* this.activeModes: mode id -> duration and time since startTime
  ending,          \* the disableSpecialMode calls awaiting their end handler
  endRuns,         \* per mode: the end effects carried out since it was activated
  mdOp             \* the last step of the dispatcher

fsVars == <<factions, userFactions, alliances, nextFactionId, nextAllianceId, fsOp>>
wsVars == <<users, wsFactions, cache, dbUsers, dbFactions, wsNow, nextStoreFactionId,
            wsDeleted, wsCalls>>

\* What a component's actions leave alone: the other components' state.
botVars == <<world, worldFile, lastTrigger, dramaTracker, dramaScores, recentMessages,
             buffer, lastEventTime, announcements, botNow, msgCount, botOp>>
ddVars == <<dramaAlliances, pairIndex, ddNow, nextRowId, ddOp>>
busVars == <<initialised, clientListeners, listeners, handlers, pending, mutations,
             nextMsg, busOp>>
evVars == <<events, dbEvents, writing, nextEventId, evOp>>
stVars == <<ready, saveInterval, stOp>>

\* The components of the plug-ins and of the concurrent handlers.
scVars == <<chaosLevel, lastReorganization, scNow, reorgRunning, scOp>>
fcVars == <<fcReady, fcClient, fcOp>>
plVars == <<plPending>>
guVars == <<guUsers, guDb, guHeap, guRef, guPc>>
idVars == <<msNow, createdEvents, localDramaEvents, lastEventId>>
pmVars == <<plugins, pmOp>>
mdVars == <<activeModes, ending, endRuns, mdOp>>
lateVars == <<scVars, fcVars, plVars, guVars, idVars, pmVars, mdVars>>
coreVars == <<fsVars, wsVars, botVars, ddVars, busVars, evVars, stVars>>
scLate == <<fcVars, plVars, guVars, idVars, pmVars, mdVars>>
scOther == <<coreVars, scLate>>
fcLate == <<scVars, plVars, guVars, idVars, pmVars, mdVars>>
fcOther == <<coreVars, fcLate>>
plLate == <<scVars, fcVars, guVars, idVars, pmVars, mdVars>>
plOther == <<coreVars, plLate>>
guLate == <<scVars, fcVars, plVars, idVars, pmVars, mdVars>>
guOther == <<coreVars, guLate>>
idLate == <<scVars, fcVars, plVars, guVars, pmVars, mdVars>>
idOther == <<coreVars, idLate>>
pmLate == <<scVars, fcVars, plVars, guVars, idVars, mdVars>>
pmOther == <<coreVars, pmLate>>
mdLate == <<scVars, fcVars, plVars, guVars, idVars, pmVars>>
mdOther == <<coreVars, mdLate>>

fsOther == <<wsVars, botVars, ddVars, busVars, evVars, stVars, lateVars>>
wsOther == <<fsVars, botVars, ddVars, busVars, evVars, stVars, lateVars>>
botOther == <<fsVars, wsVars, ddVars, busVars, evVars, stVars, lateVars>>
ddOther == <<fsVars, wsVars, botVars, busVars, evVars, stVars, lateVars>>
busOther == <<fsVars, wsVars, botVars, ddVars, evVars, stVars, lateVars>>
evOther == <<fsVars, botVars, ddVars, busVars, stVars, lateVars>>
stOther == <<fsVars, botVars, ddVars, busVars, lateVars>>

\* =========================================================================
\* FactionSystem                                  core/dramaAnalytics.ts
\* =========================================================================
FSState(f, uf, al) == [factions |-> f, userFactions |-> uf, alliances |-> al]

FSInit ==
  /\ factions = <<>>
  /\ userFactions = [u \in UserIds |-> NoFaction]
  /\ alliances = <<>>
  /\ nextFactionId = 1
  /\ nextAllianceId = 1
  /\ fsOp = [op |-> "none"]

getFactionMembers(uf, factionId) == {u \in UserIds : uf[u] = factionId}

getAllFactions == DOMAIN factions

\* dissolveFaction: every user mapped to the faction loses the mapping, the
\* faction leaves the map, and the alliances naming it are filtered out.
dissolveFaction(st, factionId) ==
  IF factionId \notin DOMAIN st.factions THEN st
  ELSE FSState(
         [g \in (DOMAIN st.factions) \ {factionId} |-> st.factions[g]],
         [u \in UserIds |-> IF st.userFactions[u] = factionId
                            THEN NoFaction ELSE st.userFactions[u]],
         SelectSeq(st.alliances,
                   LAMBDA a : a.factionIdA # factionId /\ a.factionIdB # factionId))

\* leaveFaction: returns [st, result]; result "throw" is the TypeError of
\* reading memberCount of a faction that is no longer in the map.
leaveFaction(st, userId) ==
  LET factionId == st.userFactions[userId]
      uf1 == [st.userFactions EXCEPT ![userId] = NoFaction]
  IN IF factionId = NoFaction THEN [st |-> st, result |-> "false"]
     ELSE IF factionId \notin DOMAIN st.factions
          THEN [st |-> FSState(st.factions, uf1, st.alliances), result |-> "throw"]
     ELSE LET count == Max(0, (IF st.factions[factionId].memberCount = 0 THEN 1
                                ELSE st.factions[factionId].memberCount) - 1)
              f1 == [st.factions EXCEPT ![factionId].memberCount = count]
              st1 == FSState(f1, uf1, st.alliances)
          IN [st |-> IF count <= 0 THEN dissolveFaction(st1, factionId) ELSE st1,
              result |-> "true"]

\* joinFaction: a user already in a faction leaves it first, then joins.
joinFaction(st, userId, factionId) ==
  IF factionId \notin DOMAIN st.factions THEN [st |-> st, result |-> "false"]
  ELSE LET left == IF st.userFactions[userId] # NoFaction
                   THEN leaveFaction(st, userId)
                   ELSE [st |-> st, result |-> "true"]
           s1 == left.st
           uf1 == [s1.userFactions EXCEPT ![userId] = factionId]
       IN IF left.result = "throw" THEN left
          ELSE IF factionId \notin DOMAIN s1.factions
               THEN [st |-> FSState(s1.factions, uf1, s1.alliances), result |-> "throw"]
          ELSE [st |-> FSState([s1.factions EXCEPT ![factionId].memberCount = @ + 1],
                               uf1, s1.alliances),
                result |-> "true"]

SetFS(st) ==
  /\ factions' = st.factions
  /\ userFactions' = st.userFactions
  /\ alliances' = st.alliances

CurFS == FSState(factions, userFactions, alliances)

\* createFaction(options): a fresh id, memberCount 1, the founder mapped to it.
FSCreateFaction(founder) ==
  /\ nextFactionId <= MaxFactions
  /\ factions' = [g \in (DOMAIN factions) \cup {nextFactionId} |->
                    IF g = nextFactionId
                    THEN [power |-> 10, dramaWins |-> 0, memberCount |-> 1]
                    ELSE factions[g]]
  /\ userFactions' = [userFactions EXCEPT ![founder] = nextFactionId]
  /\ nextFactionId' = nextFactionId + 1
  /\ fsOp' = [op |-> "create", user |-> founder, faction |-> nextFactionId,
              prev |-> userFactions[founder], result |-> "true"]
  /\ UNCHANGED <<alliances, nextAllianceId>>
  /\ UNCHANGED fsOther

FSJoinFaction(userId, factionId) ==
  LET r == joinFaction(CurFS, userId, factionId)
  IN /\ SetFS(r.st)
     /\ fsOp' = [op |-> "join", user |-> userId, faction |-> factionId,
                 prev |-> userFactions[userId], result |-> r.result]
     /\ UNCHANGED <<nextFactionId, nextAllianceId>>
     /\ UNCHANGED fsOther

FSLeaveFaction(userId) ==
  LET r == leaveFaction(CurFS, userId)
  IN /\ SetFS(r.st)
     /\ fsOp' = [op |-> "leave", user |-> userId, faction |-> userFactions[userId],
                 prev |-> userFactions[userId], result |-> r.result,
                 last |-> getFactionMembers(userFactions, userFactions[userId]) = {userId},
                 founder |-> /\ fsOp.op = "create"
                             /\ fsOp.user = userId
                             /\ fsOp.faction = userFactions[userId]]
     /\ UNCHANGED <<nextFactionId, nextAllianceId>>
     /\ UNCHANGED fsOther

FSDissolveFaction(factionId) ==
  /\ SetFS(dissolveFaction(CurFS, factionId))
  /\ fsOp' = [op |-> "dissolve"]
  /\ UNCHANGED <<nextFactionId, nextAllianceId>>
  /\ UNCHANGED fsOther

\* createAlliance: null unless both factions exist and differ; an existing
\* alliance of the pair (either order) is returned instead of a new one.
FSCreateAlliance(factionIdA, factionIdB) ==
  LET existing == {i \in 1..Len(alliances) :
                     \/ (alliances[i].factionIdA = factionIdA /\ alliances[i].factionIdB = factionIdB)
                     \/ (alliances[i].factionIdA = factionIdB /\ alliances[i].factionIdB = factionIdA)}
      ok == /\ factionIdA \in DOMAIN factions
            /\ factionIdB \in DOMAIN factions
            /\ factionIdA # factionIdB
  IN /\ (ok /\ existing = {}) => nextAllianceId <= MaxAlliances
     /\ IF ok /\ existing = {}
        THEN /\ alliances' = Append(alliances,
                   [id |-> nextAllianceId, factionIdA |-> factionIdA,
                    factionIdB |-> factionIdB, strength |-> 50, auraScore |-> 0])
             /\ nextAllianceId' = nextAllianceId + 1
        ELSE UNCHANGED <<alliances, nextAllianceId>>
     /\ fsOp' = [op |-> "createAlliance", result |-> IF ok THEN "alliance" ELSE "null"]
     /\ UNCHANGED <<factions, userFactions, nextFactionId>>
     /\ UNCHANGED fsOther

clampAura_unclamped(score) == score

\* Math.max(-10, Math.min(10, score))
clampAura(score) == Max(-10, Min(10, score))

\* triggerPlotTwist: the alliance is filtered out (the event is built and dropped).
triggerPlotTwist(al, allianceId) == SelectSeq(al, LAMBDA a : a.id # allianceId)

\* The event triggerPlotTwist builds, and what it hands on of it: the event
\* is a local constant that is never published ("TODO: Publish plot twist
\* event to timeline").
plotTwistEvent(a) ==
  [participants |-> <<a.factionIdA, a.factionIdB>>, trigger |-> "faction_plot_twist",
   score |-> 8]
plotTwistPublished(a) == SubSeq(<<plotTwistEvent(a)>>, 1, 0)

\* updateAllianceAura(allianceId, auraDelta); random stands for Math.random() < 0.5.
FSUpdateAllianceAura(allianceId, auraDelta, random) ==
  LET found == {i \in 1..Len(alliances) : alliances[i].id = allianceId}
  IN /\ IF found = {}
        THEN /\ UNCHANGED alliances
             /\ fsOp' = [op |-> "updateAura", found |-> FALSE]
        ELSE LET i == CHOOSE j \in found : TRUE
                 aura == clampAura(alliances[i].auraScore + auraDelta)
                 al1 == [alliances EXCEPT ![i].auraScore = aura]
                 twist == aura <= -8 /\ random
             IN /\ alliances' = IF twist THEN triggerPlotTwist(al1, allianceId) ELSE al1
                /\ fsOp' = [op |-> "updateAura", found |-> TRUE,
                            beyond |-> (alliances[i].auraScore + auraDelta > 10
                                        \/ alliances[i].auraScore + auraDelta < -10),
                            twist |-> twist, id |-> allianceId, low |-> aura < -8,
                            random |-> random,
                            published |-> IF twist THEN plotTwistPublished(al1[i]) ELSE <<>>]
     /\ UNCHANGED <<factions, userFactions, nextFactionId, nextAllianceId>>
     /\ UNCHANGED fsOther

\* a.dramaScore > 0 for an alliance record: FactionAllianceData has no
\* dramaScore, and undefined > 0 is false.
hasPositiveDramaScore(a) == "dramaScore" \in DOMAIN a /\ a.dramaScore > 0

\* calculateFactionPower(factionId): the value it stores and returns
calculateFactionPower(f, al, factionId) ==
  LET faction == f[factionId]
      counted == {i \in 1..Len(al) :
                    /\ (al[i].factionIdA = factionId \/ al[i].factionIdB = factionId)
                    /\ hasPositiveDramaScore(al[i])}
  IN Max(1, Min(100, faction.memberCount * 5 + faction.dramaWins * 10
                       + Cardinality(counted) * 8))

\* No method of FactionSystem calls calculateFactionPower; it runs when
\* a caller asks for it.
FSCalculateFactionPower(factionId) ==
  /\ factions' = IF factionId \in DOMAIN factions
                 THEN [factions EXCEPT ![factionId].power =
                         calculateFactionPower(factions, alliances, factionId)]
                 ELSE factions
  /\ fsOp' = [op |-> "calculatePower"]
  /\ UNCHANGED <<userFactions, alliances, nextFactionId, nextAllianceId>>
  /\ UNCHANGED fsOther

FSNext ==
  \/ \E u \in UserIds : FSCreateFaction(u)
  \/ \E u \in UserIds, f \in FactionIds : FSJoinFaction(u, f)
  \/ \E u \in UserIds : FSLeaveFaction(u)
  \/ \E f \in FactionIds : FSDissolveFaction(f)
  \/ \E a \in FactionIds, b \in FactionIds : FSCreateAlliance(a, b)
  \/ \E id \in 1..MaxAlliances, d \in AuraDeltas, r \in BOOLEAN : FSUpdateAllianceAura(id, d, r)

\* Membership and alliance changes together with calculateFactionPower.
PowerNext ==
  \/ \E u \in UserIds : FSCreateFaction(u)
  \/ \E u \in UserIds, f \in FactionIds : FSJoinFaction(u, f)
  \/ \E u \in UserIds : FSLeaveFaction(u)
  \/ \E a \in FactionIds, b \in FactionIds : FSCreateAlliance(a, b)
  \/ \E f \in FactionIds : FSCalculateFactionPower(f)


\* =========================================================================
\* WorldStateManager and its database adapter        TODO.md, unnamed/part_004
\* Every database call either succeeds or fails (the adapter logs the error
\* and returns null/false, it never throws); the ok parameters say which.
\* =========================================================================
CACHE_TTL == 5

Put(f, k, v) == [x \in (DOMAIN f) \cup {k} |-> IF x = k THEN v ELSE f[x]]
Del(f, k) == [x \in (DOMAIN f) \ {k} |-> f[x]]

\* String.prototype.toLowerCase on the names used here.
toLowerCase(name) ==
  CASE name = "Wolves" -> "wolves"
    [] name = "HELP" -> "help"
    [] name = "Join" -> "join"
    [] OTHER -> name

WSInit ==
  /\ users = <<>>
  /\ wsFactions = <<>>
  /\ cache = <<>>
  /\ dbUsers = <<>>
  /\ dbFactions = <<>>
  /\ wsNow = 0
  /\ nextStoreFactionId = 1
  /\ wsDeleted = {}
  /\ wsCalls = 0

CurWS == [users |-> users, factions |-> wsFactions, cache |-> cache,
          dbUsers |-> dbUsers, dbFactions |-> dbFactions]

\* Every call is counted; the model follows the store for MaxStoreCalls calls.
SetWS(st) ==
  /\ wsCalls < MaxStoreCalls
  /\ wsCalls' = wsCalls + 1
  /\ users' = st.users
  /\ wsFactions' = st.factions
  /\ cache' = st.cache
  /\ dbUsers' = st.dbUsers
  /\ dbFactions' = st.dbFactions

\* getFromCache: an entry past its expiry is deleted and reported as a miss.
getFromCache(st, key) ==
  IF key \notin DOMAIN st.cache THEN [st |-> st, hit |-> FALSE]
  ELSE IF wsNow > st.cache[key].expiresAt
       THEN [st |-> [st EXCEPT !.cache = Del(@, key)], hit |-> FALSE]
  ELSE [st |-> st, hit |-> TRUE]

setCache(st, key, data) ==
  [st EXCEPT !.cache = Put(@, key, [data |-> data, expiresAt |-> wsNow + CACHE_TTL])]

dbGetUser_throwing(rows, id, ok) ==
  IF ~ok THEN "throw" ELSE IF id \in DOMAIN rows THEN "row" ELSE "null"

\* The adapter's getUser / getFaction: the row, or null when there is none or
\* when the query fails (the error is logged, not thrown).
dbGetUser(rows, id, ok) == IF ok /\ id \in DOMAIN rows THEN "row" ELSE "null"

dbGetFaction(rows, id, ok) == IF ok /\ id \in DOMAIN rows THEN "row" ELSE "null"

\* getUser: memory, then the TTL cache, then the database.  A cached user is
\* the very object held in users (both are set from one reference and users
\* is only emptied together with the cache), so the entry carries "alias"
\* instead of a copy and a cache hit can only follow a hit in users.
getUser(st, userId, okGet) ==
  IF userId \in DOMAIN st.users THEN [st |-> st, found |-> TRUE, threw |-> FALSE]
  ELSE LET c == getFromCache(st, <<"user", userId>>)
           dbUser == dbGetUser(c.st.dbUsers, userId, okGet)
       IN IF dbUser = "throw" THEN [st |-> c.st, found |-> FALSE, threw |-> TRUE]
          ELSE IF dbUser = "row"
          THEN [st |-> setCache([c.st EXCEPT !.users = Put(@, userId, c.st.dbUsers[userId])],
                                <<"user", userId>>, "alias"),
                found |-> TRUE, threw |-> FALSE]
          ELSE [st |-> c.st, found |-> FALSE, threw |-> FALSE]

ZeroUser == [dramaPoints |-> 0, karma |-> 0, factionId |-> NoFaction]

dbSaveUser(st, userId, user, ok) ==
  IF ok THEN [st EXCEPT !.dbUsers = Put(@, userId, user)] ELSE st

getOrCreateUser_notStored(st, userId, okGet, okSave) ==
  LET g == getUser(st, userId, okGet)
  IN IF g.found \/ g.threw THEN g.st
     ELSE dbSaveUser(g.st, userId, ZeroUser, okSave)

getOrCreateUser(st, userId, okGet, okSave) ==
  LET g == getUser(st, userId, okGet)
  IN IF g.found \/ g.threw THEN g.st
     ELSE [dbSaveUser(g.st, userId, ZeroUser, okSave) EXCEPT !.users = Put(@, userId, ZeroUser)]

updateUser(st, userId, user, ok) ==
  [dbSaveUser(st, userId, user, ok) EXCEPT !.users = Put(@, userId, user)]

dbSaveFaction(st, id, faction, ok) ==
  IF ok THEN [st EXCEPT !.dbFactions = Put(@, id, faction)] ELSE st

\* createFaction(name, creatorId): no check of the name; the creator's
\* factionId is overwritten with the new id.
createFaction(st, id, name, creatorId, okF, okGet, okSave, okUpd) ==
  LET faction == [name |-> name, leaderIds |-> {creatorId}, memberIds |-> {creatorId},
                  power |-> 100, dramaWins |-> 0]
      s1 == [dbSaveFaction(st, id, faction, okF) EXCEPT !.factions = Put(@, id, faction)]
      s2 == getOrCreateUser(s1, creatorId, okGet, okSave)
      creator == [s2.users[creatorId] EXCEPT !.factionId = id]
  IN updateUser(s2, creatorId, creator, okUpd)

\* deleteFaction: the row and the in-memory entry go; the TTL cache is untouched.
deleteFaction(st, factionId, ok) ==
  [st EXCEPT !.dbFactions = IF ok THEN Del(@, factionId) ELSE @,
             !.factions = Del(@, factionId)]

\* getFaction: memory, then the TTL cache, then the database.
getFaction(st, factionId, okGet) ==
  IF factionId \in DOMAIN st.factions THEN [st |-> st, found |-> TRUE, threw |-> FALSE]
  ELSE LET key == <<"faction", factionId>>
           c == getFromCache(st, key)
           dbFaction == dbGetFaction(c.st.dbFactions, factionId, okGet)
       IN IF c.hit
          THEN [st |-> [c.st EXCEPT !.factions = Put(@, factionId, c.st.cache[key].data)],
                found |-> TRUE, threw |-> FALSE]
          ELSE IF dbFaction = "throw" THEN [st |-> c.st, found |-> FALSE, threw |-> TRUE]
          ELSE IF dbFaction = "row"
               THEN [st |-> setCache([c.st EXCEPT !.factions =
                                         Put(@, factionId, c.st.dbFactions[factionId])],
                                     key, c.st.dbFactions[factionId]),
                     found |-> TRUE, threw |-> FALSE]
          ELSE [st |-> c.st, found |-> FALSE, threw |-> FALSE]

\* updateFaction(factionId, {power}): an UPDATE that matches no row is no error.
updateFaction(st, factionId, power, okGet, okUpd) ==
  LET g == getFaction(st, factionId, okGet)
  IN IF ~g.found THEN [st |-> g.st, result |-> FALSE]
     ELSE LET updated == [g.st.factions[factionId] EXCEPT !.power = power]
              s1 == IF okUpd /\ factionId \in DOMAIN g.st.dbFactions
                    THEN [g.st EXCEPT !.dbFactions[factionId].power = power]
                    ELSE g.st
          IN IF okUpd
             THEN [st |-> setCache([s1 EXCEPT !.factions = Put(@, factionId, updated)],
                                   <<"faction", factionId>>, updated),
                   result |-> TRUE]
             ELSE [st |-> s1, result |-> FALSE]

WSGetUser(userId, okGet) ==
  LET g == getUser(CurWS, userId, okGet)
  IN /\ SetWS(g.st)
     /\ UNCHANGED <<wsNow, nextStoreFactionId, wsDeleted>>
     /\ UNCHANGED wsOther

WSGetOrCreateUser(userId, okGet, okSave) ==
  /\ SetWS(getOrCreateUser(CurWS, userId, okGet, okSave))
  /\ UNCHANGED <<wsNow, nextStoreFactionId, wsDeleted>>
  /\ UNCHANGED wsOther

WSCreateFaction(name, creatorId, okF, okGet, okSave, okUpd) ==
  /\ nextStoreFactionId <= MaxStoreFactions
  /\ SetWS(createFaction(CurWS, nextStoreFactionId, name, creatorId, okF, okGet, okSave, okUpd))
  /\ nextStoreFactionId' = nextStoreFactionId + 1
  /\ UNCHANGED <<wsNow, wsDeleted>>
  /\ UNCHANGED wsOther

WSDeleteFaction(factionId, ok) ==
  /\ SetWS(deleteFaction(CurWS, factionId, ok))
  /\ wsDeleted' = wsDeleted \cup ({factionId} \cap (1..(nextStoreFactionId - 1)))
  /\ UNCHANGED <<wsNow, nextStoreFactionId>>
  /\ UNCHANGED wsOther

WSGetFaction(factionId, okGet) ==
  LET g == getFaction(CurWS, factionId, okGet)
  IN /\ SetWS(g.st)
     /\ UNCHANGED <<wsNow, nextStoreFactionId, wsDeleted>>
     /\ UNCHANGED wsOther

WSUpdateFaction(factionId, power, okGet, okUpd) ==
  LET r == updateFaction(CurWS, factionId, power, okGet, okUpd)
  IN /\ SetWS(r.st)
     /\ UNCHANGED <<wsNow, nextStoreFactionId, wsDeleted>>
     /\ UNCHANGED wsOther

\* Time passes: one step takes the entries cached before it past their expiry.
TickStep == CACHE_TTL + 1

WSTick ==
  /\ wsNow + TickStep <= MaxTime
  /\ wsNow' = wsNow + TickStep
  /\ UNCHANGED <<users, wsFactions, cache, dbUsers, dbFactions, nextStoreFactionId,
                 wsDeleted, wsCalls>>
  /\ UNCHANGED wsOther

WSNext ==
  \/ \E u \in StoreUserIds, ok \in BOOLEAN : WSGetUser(u, ok)
  \/ \E u \in StoreUserIds, ok1 \in BOOLEAN, ok2 \in BOOLEAN : WSGetOrCreateUser(u, ok1, ok2)
  \/ \E n \in FactionNames, u \in StoreUserIds, ok1 \in BOOLEAN, ok2 \in BOOLEAN,
        ok3 \in BOOLEAN, ok4 \in BOOLEAN : WSCreateFaction(n, u, ok1, ok2, ok3, ok4)
  \/ \E f \in StoreFactionIds, ok \in BOOLEAN : WSDeleteFaction(f, ok)
  \/ \E f \in StoreFactionIds, ok \in BOOLEAN : WSGetFaction(f, ok)
  \/ \E f \in StoreFactionIds, ok1 \in BOOLEAN, ok2 \in BOOLEAN : WSUpdateFaction(f, 50, ok1, ok2)
  \/ WSTick

\* =========================================================================
\* Message pipeline: scorers            core/dramaAnalytics.ts, bot/bot.ts
\* =========================================================================
\* Time is counted in half hours.
PLUGIN_COOLDOWN == 1       \* cooldownMinutes: 30
EVENT_COOLDOWN == 2        \* cooldown: 1000 * 60 * 60
PLUGIN_HEADSTART == 2      \* lastEventTime: Date.now() - 3600000
SCORE_THRESHOLD == 5       \* eventScore > 5, dramaScore > 5
MAX_MESSAGES == 1000
MAX_REACTIONS == 500
MAX_VOICE_EVENTS == 200
MAX_MENTION_EVENTS == 200
RECENT_MESSAGES_CAP == 100

Range(s) == {s[i] : i \in 1..Len(s)}

\* A message, by the features the handlers read from it: content.length,
\* the counts of [A-Za-z] and [A-Z] characters, of '!' and '?', the
\* mentioned users (a Collection keyed by id: no repeats), the number of
\* mentioned roles, whether it is a reply, and the keywords it contains.
Shape(length, letters, upper, exclamations, questions) ==
  [length |-> length, letters |-> letters, upper |-> upper,
   exclamations |-> exclamations, questions |-> questions]

Msg(author, bot, shape, mentions, roles, reference, words) ==
  [author |-> author, bot |-> bot, length |-> shape.length, letters |-> shape.letters,
   upper |-> shape.upper, exclamations |-> shape.exclamations,
   questions |-> shape.questions, mentions |-> mentions, roles |-> roles,
   reference |-> reference, words |-> words]

ScenarioShape == Shape(36, 25, 17, 3, 0)    \* "WHY DID YOU DO THIS!!! @userB @userC"
CapsShape == Shape(40, 15, 15, 3, 0)        \* the same with mentions as <@id>
EdgeShape == Shape(100, 10, 10, 2, 2)       \* every count on its threshold
RantShape == Shape(201, 150, 150, 3, 3)     \* every count above its threshold
QuietShape == Shape(12, 10, 0, 0, 0)

Shapes == {ScenarioShape, EdgeShape, RantShape, QuietShape}

MentionLists == {<<>>, <<"userB">>, <<"userB", "userC">>, <<"userA", "userB", "userC">>,
                 <<"userA", "userB", "userC", "userD">>}

Authors == {"userA", "userB"}

\* The messages the scorer is run on.
Messages ==
  {Msg(a, b, s, ml, 0, r, {}) :
     a \in Authors, b \in BOOLEAN, s \in Shapes, ml \in MentionLists, r \in BOOLEAN}

ScenarioA == Msg("userA", FALSE, ScenarioShape, <<"userB", "userC">>, 0, FALSE, {})

\* The messages delivered to the dispatching handlers.
Arrivals ==
  {ScenarioA,
   Msg("userA", FALSE, CapsShape, <<"userB", "userC">>, 0, FALSE, {"war"}),
   Msg("userB", FALSE, CapsShape, <<"userA", "userC">>, 0, FALSE, {"war"}),
   Msg("userB", FALSE, QuietShape, <<>>, 0, FALSE, {}),
   Msg("userB", FALSE, QuietShape, <<"userA">>, 1, TRUE, {"betray", "war"}),
   Msg("userC", TRUE, RantShape, <<"userA", "userB", "userC", "userD">>, 1, TRUE, {"war"})}

\* The answer of the toxicity API: the request fails, or {toxic, score}
\* with the score in tenths.
ToxicityScores == {10}
ToxicityResults ==
  {[ok |-> FALSE, toxic |-> FALSE, score |-> 0]}
    \cup [ok : {TRUE}, toxic : BOOLEAN, score : ToxicityScores]

\* Math.ceil(score * 5), the score in tenths
ceilTimes5(tenths) == (tenths * 5 + 9) \div 10

DramaWords == {"fight", "vs", "drama", "beef", "war", "callout", "battle"}

\* bot.ts autoDetectDrama
autoDetectDrama(m, tox) ==
    (IF Len(m.mentions) + m.roles > 1 THEN 2 ELSE 0)
  + (IF m.upper = m.letters /\ m.length > 10 THEN 2 ELSE 0)
  + (IF m.words \cap DramaWords # {} THEN 2 ELSE 0)
  + (IF tox.ok /\ tox.toxic THEN ceilTimes5(tox.score) ELSE 0)

\* The channel a message was posted in.
DefaultChannel == "general"
ChannelOf(m) == IF "channel" \in DOMAIN m THEN m.channel ELSE DefaultChannel

\* An entry of a buffer is named by its arrival number in that buffer.
NextEntry(buf) == IF buf = <<>> THEN 1 ELSE buf[Len(buf)] + 1

\* buf.push(entry); if (buf.length > cap) buf.shift();
pushCapped_dropsNewest(buf, cap) ==
  IF Len(buf) + 1 > cap THEN buf ELSE Append(buf, NextEntry(buf))

pushCapped(buf, cap) ==
  LET pushed == Append(buf, NextEntry(buf))
  IN IF Len(pushed) > cap THEN Tail(pushed) ELSE pushed

\* DramaAnalytics.trackMessageData: the channel keeps its last 100 entries
trackMessageData(recent, channelId) ==
  LET channelMessages == IF channelId \in DOMAIN recent THEN recent[channelId] ELSE <<>>
  IN [c \in DOMAIN recent \cup {channelId} |->
        IF c = channelId THEN pushCapped(channelMessages, RECENT_MESSAGES_CAP)
        ELSE recent[c]]

\* The sum analyzeMessage builds before it clamps.
messageScore(m) ==
    (IF m.length > 100 THEN 1 ELSE 0)
  + (IF m.length > 200 THEN 1 ELSE 0)
  + (IF m.letters > 0 /\ 2 * m.upper > m.letters /\ m.letters > 10 THEN 2 ELSE 0)
  + (IF m.exclamations > 2 THEN 1 ELSE 0)
  + (IF m.questions > 2 THEN 1 ELSE 0)
  + Min(3, Len(m.mentions))
  + (IF m.reference THEN 1 ELSE 0)

analyzeMessage_tracksBots(scores, recent, m) ==
  LET score == IF m.bot THEN 0 ELSE messageScore(m)
      old == IF m.author \in DOMAIN scores THEN scores[m.author] ELSE 0
  IN [dramaScores |-> Put(scores, m.author, old + score),
      recentMessages |-> trackMessageData(recent, ChannelOf(m)),
      score |-> Min(10, score)]

\* DramaAnalytics.analyzeMessage on the scorer's state
analyzeMessage(scores, recent, m) ==
  IF m.bot THEN [dramaScores |-> scores, recentMessages |-> recent, score |-> 0]
  ELSE LET score == messageScore(m)
           old == IF m.author \in DOMAIN scores THEN scores[m.author] ELSE 0
       IN [dramaScores |-> Put(scores, m.author, old + score),
           recentMessages |-> trackMessageData(recent, ChannelOf(m)),
           score |-> Min(10, score)]

\* =========================================================================
\* Message pipeline: dispatch     bot/bot.ts, engine/worldState.ts,
\*    engine/eventGenerator.ts, unnamed/part_005, unnamed/part_006
\* =========================================================================
NoOp == [op |-> "none", scored |-> FALSE, score |-> 0, gated |-> FALSE,
         scenario |-> FALSE, spaced |-> FALSE, created |-> <<>>]

BotInit ==
  /\ world = [users |-> <<>>, dramaTimeline |-> <<>>, lastEvent |-> PLUGIN_HEADSTART]
  /\ worldFile = <<>>
  /\ lastTrigger = 0
  /\ dramaTracker = <<>>
  /\ dramaScores = <<>>
  /\ recentMessages = <<>>
  /\ buffer = [messages |-> <<>>, reactions |-> <<>>, voiceEvents |-> <<>>,
               mentionEvents |-> <<>>]
  /\ botNow = PLUGIN_HEADSTART
  /\ lastEventTime = botNow - PLUGIN_HEADSTART
  /\ announcements = <<>>
  /\ msgCount = 0
  /\ botOp = NoOp

\* engine WorldStateManager.updateUser: { ...users[id], ...data }
worldUpdateUser(w, id, data) == [w EXCEPT !.users = Put(@, id, data)]

addDramaEvent_rolledBack(w, event) == w

\* engine WorldStateManager.addDramaEvent
addDramaEvent(w, event) ==
  [w EXCEPT !.dramaTimeline = Append(@, event), !.lastEvent = event.timestamp]

\* ProgressionSystem.addXP / addHype; bot.ts calls addHype, which
\* engine/progression.ts does not define: taken to add to hype as addXP
\* adds to xp.
addXP(user, amount) == [user EXCEPT !.xp = @ + amount]
addHype(user, amount) == [user EXCEPT !.hype = @ + amount]

\* SpotlightChallengeEvent.execute
SpotlightChallenge(now) ==
  [id |-> <<"spotlight-challenge", now>>, type |-> "spotlight_challenge",
   timestamp |-> now, participants |-> <<>>, impact |-> 50]

\* DynamicEventGenerator.tryTriggerEvents, with [SpotlightChallengeEvent];
\* random is the outcome of Math.random() < 0.01
tryTriggerEvents(w, last, now, random) ==
  IF random /\ (last = 0 \/ now - last > EVENT_COOLDOWN)
  THEN [world |-> addDramaEvent(w, SpotlightChallenge(now)), lastTrigger |-> now]
  ELSE [world |-> w, lastTrigger |-> last]

\* bot.ts autoSuggestFaction: one more mention of each mentioned user
autoSuggestFaction(tracker, m) ==
  LET mine == IF m.author \in DOMAIN tracker THEN tracker[m.author] ELSE <<>>
      mentioned == Range(m.mentions)
  IN Put(tracker, m.author,
         [u \in (DOMAIN mine) \cup mentioned |->
            (IF u \in DOMAIN mine THEN mine[u] ELSE 0) + (IF u \in mentioned THEN 1 ELSE 0)])

\* Every earlier event of the type lies more than the window back.
Spaced(timeline, type, now, window) ==
  \A i \in 1..Len(timeline) :
    timeline[i].type = type => now - timeline[i].timestamp > window

Participants(timeline, from) ==
  [i \in 1..(Len(timeline) - from) |-> timeline[from + i].participants]

\* client.on('messageCreate') of bot.ts.  A user the world does not know is
\* stored as a copy ({...data}): addXP and addHype then change the handler's
\* local object, not the stored one.  A rejected timeline send ends the
\* handler there.
BotMessageCreate(m, isCommand, tox, random, sendOk) ==
  /\ msgCount < MaxMessages
  /\ msgCount' = msgCount + 1
  /\ IF m.bot \/ isCommand
     THEN /\ botOp' = [NoOp EXCEPT !.op = "messageCreate", !.scenario = (m = ScenarioA)]
          /\ UNCHANGED <<world, worldFile, lastTrigger, dramaTracker>>
     ELSE LET id == m.author
              known == id \in DOMAIN world.users
              w0 == IF known THEN world
                    ELSE worldUpdateUser(world, id, [xp |-> 0, hype |-> 0, dramaPoints |-> 0])
              w1 == IF known THEN [w0 EXCEPT !.users[id] = addXP(@, 1)] ELSE w0
              eventScore == autoDetectDrama(m, tox)
              hit == eventScore > SCORE_THRESHOLD
              w2 == IF hit /\ known THEN [w1 EXCEPT !.users[id] = addHype(@, eventScore)] ELSE w1
              event == [id |-> <<"event", botNow>>, type |-> "spotlight",
                        timestamp |-> botNow, participants |-> <<id>>, impact |-> eventScore]
              w3 == IF hit THEN addDramaEvent(w2, event) ELSE w2
              t == IF hit /\ sendOk THEN tryTriggerEvents(w3, lastTrigger, botNow, random)
                   ELSE [world |-> w3, lastTrigger |-> lastTrigger]
              rejected == hit /\ ~sendOk
          IN /\ world' = t.world
             /\ lastTrigger' = t.lastTrigger
             /\ dramaTracker' = IF rejected THEN dramaTracker
                                ELSE autoSuggestFaction(dramaTracker, m)
             /\ worldFile' = IF rejected THEN worldFile ELSE <<t.world>>
             /\ botOp' = [op |-> "messageCreate", scored |-> TRUE, score |-> eventScore,
                          gated |-> ~hit, scenario |-> (m = ScenarioA),
                          spaced |-> Spaced(world.dramaTimeline, "spotlight", botNow,
                                            PLUGIN_COOLDOWN),
                          created |-> Participants(t.world.dramaTimeline,
                                                   Len(world.dramaTimeline)),
                          rejected |-> rejected]
  /\ UNCHANGED <<dramaScores, recentMessages, buffer, lastEventTime, announcements, botNow>>
  /\ UNCHANGED botOther

\* EventCaptureEngine.handleMessageCreate (part_005): buffers the message,
\* scores it; processDramaticMessage and detectHighVelocityThread only log.
CaptureMessageCreate(m) ==
  /\ msgCount < MaxMessages
  /\ msgCount' = msgCount + 1
  /\ IF m.bot
     THEN /\ botOp' = [NoOp EXCEPT !.op = "capture", !.scenario = (m = ScenarioA)]
          /\ UNCHANGED <<buffer, dramaScores, recentMessages>>
     ELSE LET a == analyzeMessage(dramaScores, recentMessages, m)
          IN /\ buffer' = [buffer EXCEPT
                             !.messages = pushCapped(@, MAX_MESSAGES),
                             !.mentionEvents = IF Len(m.mentions) > 0
                                               THEN pushCapped(@, MAX_MENTION_EVENTS)
                                               ELSE @]
             /\ dramaScores' = a.dramaScores
             /\ recentMessages' = a.recentMessages
             /\ botOp' = [op |-> "capture", scored |-> TRUE, score |-> a.score,
                          gated |-> ~(a.score > SCORE_THRESHOLD),
                          scenario |-> (m = ScenarioA), spaced |-> FALSE, created |-> <<>>]
  /\ UNCHANGED <<world, worldFile, lastTrigger, dramaTracker, lastEventTime, announcements,
                 botNow>>
  /\ UNCHANGED botOther

\* EventCaptureEngine.handleReactionAdd: a bot's reaction and a partial
\* reaction whose fetch fails are dropped; analyzeReactionPatterns only logs.
CaptureReactionAdd(bot, partial, fetchOk) ==
  LET skipped == bot \/ (partial /\ ~fetchOk)
  IN /\ msgCount < MaxMessages
     /\ msgCount' = msgCount + 1
     /\ buffer' = IF skipped THEN buffer
                  ELSE [buffer EXCEPT !.reactions = pushCapped(@, MAX_REACTIONS)]
     /\ botOp' = [NoOp EXCEPT !.op = IF skipped THEN "reactionSkipped" ELSE "reactionAdd"]
     /\ UNCHANGED <<world, worldFile, lastTrigger, dramaTracker, dramaScores, recentMessages,
                    lastEventTime, announcements, botNow>>
     /\ UNCHANGED botOther

\* EventCaptureEngine.handleVoiceStateUpdate: a bot's voice event is dropped;
\* detectRageQuit and detectVoiceChannelFlood only log.
CaptureVoiceStateUpdate(bot) ==
  /\ msgCount < MaxMessages
  /\ msgCount' = msgCount + 1
  /\ buffer' = IF bot THEN buffer
               ELSE [buffer EXCEPT !.voiceEvents = pushCapped(@, MAX_VOICE_EVENTS)]
  /\ botOp' = [NoOp EXCEPT !.op = IF bot THEN "voiceSkipped" ELSE "voiceStateUpdate"]
  /\ UNCHANGED <<world, worldFile, lastTrigger, dramaTracker, dramaScores, recentMessages,
                 lastEventTime, announcements, botNow>>
  /\ UNCHANGED botOther

\* DramaAnalytics' own subscription to the bus: analyzeMessage(msg)
AnalyzeMessage(m) ==
  /\ msgCount < MaxMessages
  /\ msgCount' = msgCount + 1
  /\ LET a == analyzeMessage(dramaScores, recentMessages, m)
     IN /\ dramaScores' = a.dramaScores
        /\ recentMessages' = a.recentMessages
        /\ botOp' = [op |-> "analyze", scored |-> TRUE, score |-> a.score,
                     gated |-> ~m.bot /\ ~(a.score > SCORE_THRESHOLD),
                     scenario |-> (m = ScenarioA), spaced |-> FALSE, created |-> <<>>]
  /\ UNCHANGED <<world, worldFile, lastTrigger, dramaTracker, buffer, lastEventTime,
                 announcements, botNow>>
  /\ UNCHANGED botOther

\* DRAMA_KEYWORDS, searched in this order; the first category that matches wins
matchedEventType(words) ==
  IF words \cap {"war", "battle", "fight", "conflict", "attack"} # {} THEN "faction_war"
  ELSE IF words \cap {"betray", "backstab", "traitor", "turncoat", "defect"} # {}
       THEN "betrayal"
  ELSE IF words \cap {"drama", "chaos", "mayhem", "wild"} # {} THEN "drama_night"
  ELSE IF words \cap {"overthrow", "coup", "rebellion", "revolt", "usurp", "takeover"} # {}
       THEN "coup"
  ELSE "none"

Channels == {"ok", "missing", "sendFails", "reactFails"}

\* dramaEventsPlugin.onMessage (part_006).  random is the outcome of
\* Math.random() < eventProbability; channel says how the announcement goes:
\* posted, no timeline channel, send rejected, or posted and a react rejected.
PluginOnMessage(m, random, channel) ==
  /\ msgCount < MaxMessages
  /\ msgCount' = msgCount + 1
  /\ LET cooling == botNow - lastEventTime < PLUGIN_COOLDOWN
         matched == matchedEventType(m.words)
         fire == ~m.bot /\ ~cooling /\ matched # "none" /\ random
         posted == fire /\ channel \in {"ok", "reactFails"}
     IN /\ announcements' = IF posted
                            THEN Append(announcements,
                                        [type |-> matched, timestamp |-> botNow,
                                         participants |-> <<m.author>>])
                            ELSE announcements
        /\ lastEventTime' = IF fire /\ channel \in {"ok", "missing"} THEN botNow
                            ELSE lastEventTime
        /\ botOp' = [NoOp EXCEPT !.op = "plugin", !.gated = ~m.bot /\ cooling,
                                 !.scenario = (m = ScenarioA),
                                 !.created = IF posted THEN << <<m.author>> >> ELSE <<>>]
  /\ UNCHANGED <<world, worldFile, lastTrigger, dramaTracker, dramaScores, recentMessages,
                 buffer, botNow>>
  /\ UNCHANGED botOther

BotTick ==
  /\ botNow < MaxBotTime
  /\ botNow' = botNow + 1
  /\ UNCHANGED <<world, worldFile, lastTrigger, dramaTracker, dramaScores, recentMessages,
                 buffer, lastEventTime, announcements, msgCount, botOp>>
  /\ UNCHANGED botOther

BotNext ==
  \/ \E m \in Arrivals, isCommand \in BOOLEAN, tox \in ToxicityResults, random \in BOOLEAN,
        sendOk \in BOOLEAN : BotMessageCreate(m, isCommand, tox, random, sendOk)
  \/ \E m \in Arrivals : CaptureMessageCreate(m)
  \/ \E m \in Arrivals, random \in BOOLEAN, channel \in Channels :
        PluginOnMessage(m, random, channel)
  \/ BotTick

\* The scorer alone, on every message of Messages.
ScoreNext ==
  \/ \E m \in Messages : AnalyzeMessage(m)
  \/ \E m \in Messages : CaptureMessageCreate(m)

\* The capture engine after a long run: the buffers hold the entries 1..n of
\* 999 messages (199 of them with mentions, all by userA and scored 1; 99 of
\* them in #drama, the other 900 in #general), 499 reactions and 200 voice
\* events.
BufChannels == {"general", "drama"}

InChannel(m, c) ==
  [x \in DOMAIN m \cup {"channel"} |-> IF x = "channel" THEN c ELSE m[x]]

BufMessages ==
  {InChannel(m, c) :
     m \in {Msg("userB", FALSE, QuietShape, <<>>, 0, FALSE, {}),
            Msg("userA", FALSE, QuietShape, <<"userB">>, 0, FALSE, {}),
            Msg("userC", TRUE, RantShape, <<"userA", "userB">>, 0, TRUE, {"war"})},
     c \in BufChannels}

BufInit ==
  \E long \in BOOLEAN :
     IF ~long THEN BotInit
     ELSE /\ buffer = [messages |-> [i \in 1..(MAX_MESSAGES - 1) |-> i],
                       reactions |-> [i \in 1..(MAX_REACTIONS - 1) |-> i],
                       voiceEvents |-> [i \in 1..MAX_VOICE_EVENTS |-> i],
                       mentionEvents |-> [i \in 1..(MAX_MENTION_EVENTS - 1) |-> i]]
          /\ recentMessages = [c \in BufChannels |->
                                 IF c = "drama" THEN [i \in 1..(RECENT_MESSAGES_CAP - 1) |-> i]
                                 ELSE [i \in 1..RECENT_MESSAGES_CAP |-> 800 + i]]
          /\ dramaScores = [u \in {"userA", "userB"} |->
                              IF u = "userA" THEN MAX_MENTION_EVENTS - 1 ELSE 0]
          /\ world = [users |-> <<>>, dramaTimeline |-> <<>>, lastEvent |-> PLUGIN_HEADSTART]
          /\ worldFile = <<>>
          /\ lastTrigger = 0
          /\ dramaTracker = <<>>
          /\ botNow = PLUGIN_HEADSTART
          /\ lastEventTime = botNow - PLUGIN_HEADSTART
          /\ announcements = <<>>
          /\ msgCount = 0
          /\ botOp = NoOp

BufNext ==
  \/ \E m \in BufMessages : CaptureMessageCreate(m)
  \/ \E m \in BufMessages : AnalyzeMessage(m)
  \/ \E m \in BufMessages, isCommand \in BOOLEAN, tox \in ToxicityResults, random \in BOOLEAN,
        sendOk \in BOOLEAN : BotMessageCreate(m, isCommand, tox, random, sendOk)
  \/ \E m \in BufMessages, random \in BOOLEAN, channel \in Channels :
        PluginOnMessage(m, random, channel)
  \/ \E bot \in BOOLEAN, partial \in BOOLEAN, fetchOk \in BOOLEAN :
        CaptureReactionAdd(bot, partial, fetchOk)
  \/ \E bot \in BOOLEAN : CaptureVoiceStateUpdate(bot)

\* =========================================================================
\* Persistent drama alliances     unnamed/part_020 (bot/drama.ts),
\*    unnamed/part_000 (schema), bot/bot.ts (betrayal / dissolution sweep)
\* =========================================================================
\* Time is counted in weeks.
STALE_WINDOW == 1          \* 7 * 24 * 60 * 60 * 1000
NEGATIVE_SCORE == -5       \* row.drama_score < -5

DramaUsers == {"userA", "userB"}
AllianceTypes == {"alliance", "rivalry"}
LoggedScores == {1, 6}

\* The table as unnamed/part_000 creates it has the primary key alone
\* (CREATE TABLE IF NOT EXISTS: a table that exists already is kept as it
\* is); the INSERT of logDramaAlliance names the conflict target
\* (user_a, user_b, type) and is rejected unless a unique index on it exists.
DDStart(indexed) ==
  /\ dramaAlliances = <<>>
  /\ pairIndex = indexed
  /\ ddNow = 0
  /\ nextRowId = 1
  /\ ddOp = [op |-> "none"]

DDInit == \E indexed \in BOOLEAN : DDStart(indexed)

\* INSERT ... ON CONFLICT (user_a, user_b, type) DO UPDATE
\*   SET drama_score = drama_score + $5, last_interaction = NOW()
logDramaAlliance(rows, indexed, id, userA, userB, type, score, now) ==
  LET hit == {i \in 1..Len(rows) :
                rows[i].user_a = userA /\ rows[i].user_b = userB /\ rows[i].type = type}
  IN IF ~indexed THEN rows
     ELSE IF hit # {}
          THEN [i \in 1..Len(rows) |->
                  IF i \in hit
                  THEN [rows[i] EXCEPT !.drama_score = @ + score, !.last_interaction = now]
                  ELSE rows[i]]
     ELSE Append(rows, [id |-> id, user_a |-> userA, user_b |-> userB, type |-> type,
                        drama_score |-> score, last_interaction |-> now])

DDLogDramaAlliance(userA, userB, type, score) ==
  /\ nextRowId <= MaxLogs
  /\ dramaAlliances' = logDramaAlliance(dramaAlliances, pairIndex, nextRowId, userA, userB,
                                        type, score, ddNow)
  /\ nextRowId' = nextRowId + 1
  /\ ddOp' = [op |-> "log", rejected |-> ~pairIndex]
  /\ UNCHANGED <<pairIndex, ddNow>>
  /\ UNCHANGED ddOther

\* The condition of the sweep for one row
inactive(row, now) == now - row.last_interaction > STALE_WINDOW
negative(row) == row.drama_score < NEGATIVE_SCORE
endsAlliance(row, now) == (row.type = "alliance" /\ negative(row)) \/ inactive(row, now)

RowView(row, now) ==
  [type |-> row.type, score |-> row.drama_score, stale |-> inactive(row, now)]

\* The setInterval callback of bot.ts: every row that endsAlliance is
\* announced in #general and deleted.  channel says how the announcement
\* goes: sent, no such channel (the row is deleted unannounced), or the send
\* is rejected (the callback ends there, before the DELETE).
DDSweep(channel) ==
  LET doomed == {i \in 1..Len(dramaAlliances) : endsAlliance(dramaAlliances[i], ddNow)}
      gone == IF channel = "sendFails" THEN {} ELSE doomed
  IN /\ dramaAlliances' = SelectSeq(dramaAlliances,
                                    LAMBDA row : ~(\E i \in gone : dramaAlliances[i].id = row.id))
     /\ ddOp' = [op |-> "sweep",
                 deleted |-> {RowView(dramaAlliances[i], ddNow) : i \in gone},
                 kept |-> {RowView(dramaAlliances[i], ddNow) :
                             i \in (1..Len(dramaAlliances)) \ gone},
                 announced |-> IF channel = "ok" THEN Cardinality(doomed) ELSE 0]
     /\ UNCHANGED <<pairIndex, ddNow, nextRowId>>
     /\ UNCHANGED ddOther

DDTick ==
  /\ ddNow < MaxWeeks
  /\ ddNow' = ddNow + 1
  /\ UNCHANGED <<dramaAlliances, pairIndex, nextRowId, ddOp>>
  /\ UNCHANGED ddOther

DDNext ==
  \/ \E a \in DramaUsers : \E b \in DramaUsers \ {a} :
       \E t \in AllianceTypes, sc \in LoggedScores : DDLogDramaAlliance(a, b, t, sc)
  \/ \E channel \in {"ok", "missing", "sendFails"} : DDSweep(channel)
  \/ DDTick

\* =========================================================================
\* Event capture and buses     core/dramaAnalytics.ts (EventCaptureEngine),
\*    engine/eventBus.ts, unnamed/part_005, bot/bot.ts
\* A listener either returns or throws; which listeners throw on an event is
\* an input of the delivery.
\* =========================================================================
Subscribers == {"dramaAnalytics", "dramaEvents"}
EventTypes == {"message", "reactionAdd"}

BusInit ==
  /\ initialised = FALSE
  /\ clientListeners = <<"bot">>
  /\ listeners = <<>>
  /\ handlers = <<>>
  /\ pending = {}
  /\ mutations = <<>>
  /\ nextMsg = 1
  /\ busOp = [op |-> "none"]

Count(seq, x) == Cardinality({i \in 1..Len(seq) : seq[i] = x})

\* EventBus.emit: forEach over the handlers of the event's type, in
\* registration order; a throw leaves forEach, the rest is not called.
emit(hs, type, throwing) ==
  LET subs == IF type \in DOMAIN hs THEN hs[type] ELSE <<>>
      idx == {i \in 1..Len(subs) : subs[i] \in throwing}
  IN IF idx = {} THEN [ran |-> subs, threw |-> FALSE]
     ELSE [ran |-> SubSeq(subs, 1, CHOOSE i \in idx : \A j \in idx : i <= j),
           threw |-> TRUE]

\* TypedEmitter.emit is EventEmitter.emit: the listeners are called in
\* registration order and a throw propagates to the caller of emit.
typedEmit(ls, throwing) == emit([message |-> ls], "message", throwing)

\* EventCaptureEngine.init(client): a no-op once initialised.
CaptureInit ==
  /\ IF initialised
     THEN UNCHANGED <<initialised, clientListeners>>
     ELSE /\ initialised' = TRUE
          /\ clientListeners' = Append(clientListeners, "forward")
  /\ busOp' = [op |-> "init"]
  /\ UNCHANGED <<listeners, handlers, pending, mutations, nextMsg>>
  /\ UNCHANGED busOther

\* registerEventHandlers(client): new EventCaptureEngine(client), whose
\* constructor registers handleMessageCreate on the client.
RegisterEventHandlers ==
  /\ Count(clientListeners, "capture") < MaxConstructs
  /\ clientListeners' = Append(clientListeners, "capture")
  /\ busOp' = [op |-> "construct"]
  /\ UNCHANGED <<initialised, listeners, handlers, pending, mutations, nextMsg>>
  /\ UNCHANGED busOther

\* eventCapture.on('message', listener)
CaptureOn(s) ==
  /\ Len(listeners) < MaxSubscribers
  /\ listeners' = Append(listeners, s)
  /\ busOp' = [op |-> "subscribe"]
  /\ UNCHANGED <<initialised, clientListeners, handlers, pending, mutations, nextMsg>>
  /\ UNCHANGED busOther

\* The number of handlers registered on the bus, over all event types.
RECURSIVE HandlerCountOver(_, _)
HandlerCountOver(hs, types) ==
  IF types = {} THEN 0
  ELSE LET t == CHOOSE x \in types : TRUE
       IN Len(hs[t]) + HandlerCountOver(hs, types \ {t})

HandlerCount(hs) == HandlerCountOver(hs, DOMAIN hs)

\* EventBus.on(eventType, handler)
BusOn(type, s) ==
  /\ HandlerCount(handlers) < MaxSubscribers
  /\ handlers' = [t \in (DOMAIN handlers) \cup {type} |->
                    IF t = type
                    THEN Append(IF t \in DOMAIN handlers THEN handlers[t] ELSE <<>>, s)
                    ELSE handlers[t]]
  /\ busOp' = [op |-> "on"]
  /\ UNCHANGED <<initialised, clientListeners, listeners, pending, mutations, nextMsg>>
  /\ UNCHANGED busOther

\* EventBus.emit(event)
BusEmit(type, throwing) ==
  LET r == emit(handlers, type, throwing)
  IN /\ busOp' = [op |-> "emit", type |-> type, ran |-> r.ran, threw |-> r.threw]
     /\ UNCHANGED <<initialised, clientListeners, listeners, handlers, pending,
                    mutations, nextMsg>>
     /\ UNCHANGED busOther

\* The gateway delivers a message: client.emit('messageCreate', msg) calls the
\* client's listeners in registration order.  The bot.ts handler creates the
\* user, adds the XP and then awaits the toxicity fetch; the capture hook
\* republishes on the emitter; handleMessageCreate buffers the message.  The
\* two async handlers never throw; a throw out of the emitter leaves client.emit.
GatewayMessage(throwing) ==
  LET r == typedEmit(listeners, throwing)
      fwd == {i \in 1..Len(clientListeners) : clientListeners[i] = "forward"}
      called == IF r.threw /\ fwd # {}
                THEN SubSeq(clientListeners, 1, CHOOSE i \in fwd : TRUE)
                ELSE clientListeners
  IN /\ nextMsg <= MaxGatewayMessages
     /\ nextMsg' = nextMsg + 1
     /\ pending' = pending \cup {nextMsg}
     /\ mutations' = Append(mutations, [msg |-> nextMsg, change |-> "addXP"])
     /\ busOp' = [op |-> "message", msg |-> nextMsg,
                  published |-> Count(called, "forward"),
                  handled |-> Count(called, "capture"),
                  ran |-> IF fwd # {} THEN r.ran ELSE <<>>,
                  threw |-> r.threw /\ fwd # {}]
     /\ UNCHANGED <<initialised, clientListeners, listeners, handlers>>
     /\ UNCHANGED busOther

\* The toxicity fetch of message m completes (or fails, which autoDetectDrama
\* ignores) and the bot.ts handler runs on: hype and drama event when the
\* score is above the threshold, then autoSuggestFaction and saveWorldState.
FetchSettles(m) ==
  /\ m \in pending
  /\ pending' = pending \ {m}
  /\ mutations' = Append(mutations, [msg |-> m, change |-> "saveWorldState"])
  /\ busOp' = [op |-> "resume", msg |-> m]
  /\ UNCHANGED <<initialised, clientListeners, listeners, handlers, nextMsg>>
  /\ UNCHANGED busOther

BusNext ==
  \/ CaptureInit
  \/ RegisterEventHandlers
  \/ \E s \in Subscribers : CaptureOn(s)
  \/ \E t \in EventTypes, s \in Subscribers : BusOn(t, s)
  \/ \E t \in EventTypes, th \in SUBSET Subscribers : BusEmit(t, th)
  \/ \E th \in SUBSET Subscribers : GatewayMessage(th)
  \/ \E m \in 1..MaxGatewayMessages : FetchSettles(m)

\* =========================================================================
\* WorldStateManager.logDramaEvent                 TODO.md, unnamed/part_004
\* The method suspends at await db.logDramaEvent; the write then succeeds or
\* fails (the adapter logs the error and resolves to false) and the method
\* runs on.  Events are logged with at most one participant and no faction.
\* =========================================================================
EventParticipants == {{}} \cup {{u} : u \in StoreUserIds}

EvInit ==
  /\ events = <<>>
  /\ dbEvents = <<>>
  /\ writing = <<>>
  /\ nextEventId = 1
  /\ evOp = [op |-> "none"]

\* logDramaEvent up to await db.logDramaEvent(newEvent): the event is built
\* and handed to the adapter; this.events is not touched yet.
LogDramaEventIssue(participants) ==
  /\ nextEventId <= MaxEvents
  /\ writing' = Put(writing, nextEventId, [participants |-> participants, resolved |-> FALSE])
  /\ nextEventId' = nextEventId + 1
  /\ evOp' = [op |-> "issued", id |-> nextEventId]
  /\ UNCHANGED <<events, dbEvents>>
  /\ UNCHANGED wsVars
  /\ UNCHANGED evOther

\* After the await: the returned boolean is ignored, the event is put into
\* this.events, and every participant found is saved again through updateUser.
afterLogDramaEvent(st, event, okGet, okUpd) ==
  IF event.participants = {} THEN st
  ELSE LET userId == CHOOSE u \in event.participants : TRUE
           g == getUser(st, userId, okGet)
       IN IF g.found THEN updateUser(g.st, userId, g.st.users[userId], okUpd)
          ELSE g.st

LogDramaEventSettle(id, okLog, okGet, okUpd) ==
  /\ id \in DOMAIN writing
  /\ dbEvents' = IF okLog THEN Put(dbEvents, id, writing[id]) ELSE dbEvents
  /\ events' = Put(events, id, writing[id])
  /\ writing' = Del(writing, id)
  /\ SetWS(afterLogDramaEvent(CurWS, writing[id], okGet, okUpd))
  /\ evOp' = [op |-> "logged", id |-> id, saved |-> okLog]
  /\ UNCHANGED <<nextEventId, wsNow, nextStoreFactionId, wsDeleted>>
  /\ UNCHANGED evOther

\* getOrCreateUser as called between the steps of logDramaEvent.
EvGetOrCreateUser(userId, okGet, okSave) ==
  /\ SetWS(getOrCreateUser(CurWS, userId, okGet, okSave))
  /\ UNCHANGED <<wsNow, nextStoreFactionId, wsDeleted>>
  /\ UNCHANGED evVars
  /\ UNCHANGED evOther

EvNext ==
  \/ \E p \in EventParticipants : LogDramaEventIssue(p)
  \/ \E id \in 1..MaxEvents, ok1 \in BOOLEAN, ok2 \in BOOLEAN, ok3 \in BOOLEAN :
        LogDramaEventSettle(id, ok1, ok2, ok3)
  \/ \E u \in StoreUserIds, ok1 \in BOOLEAN, ok2 \in BOOLEAN : EvGetOrCreateUser(u, ok1, ok2)

\* The Partial<DramaEvent> values handed to updateDramaEvent.
EventUpdates ==
  {[resolved |-> TRUE], [resolved |-> FALSE], [participants |-> {"userA"}]}

\* { ...event, ...data }
mergeEvent(event, data) ==
  [x \in DOMAIN event \cup DOMAIN data |-> IF x \in DOMAIN data THEN data[x] ELSE event[x]]

\* updateDramaEvent(eventId, data): an unknown id gives false; otherwise the
\* merged event goes to the adapter and, if that succeeds, into this.events.
UpdateDramaEvent(eventId, data, ok) ==
  LET known == eventId \in DOMAIN events
      updatedEvent == mergeEvent(events[eventId], data)
      rowUpdated == known /\ ok /\ eventId \in DOMAIN dbEvents
  IN /\ events' = IF known /\ ok THEN Put(events, eventId, updatedEvent) ELSE events
     /\ dbEvents' = IF rowUpdated THEN Put(dbEvents, eventId, updatedEvent) ELSE dbEvents
     /\ evOp' = [op |-> "updated", id |-> eventId, success |-> known /\ ok]
     /\ UNCHANGED <<writing, nextEventId>>
     /\ UNCHANGED wsVars
     /\ UNCHANGED evOther

EvUpdateNext ==
  \/ \E p \in EventParticipants : LogDramaEventIssue(p)
  \/ \E id \in 1..MaxEvents, ok \in BOOLEAN : LogDramaEventSettle(id, ok, TRUE, TRUE)
  \/ \E id \in 1..MaxEvents, data \in EventUpdates, ok \in BOOLEAN :
        UpdateDramaEvent(id, data, ok)

\* =========================================================================
\* WorldStateManager life cycle: initialize, auto-save, destroy, and the
\* reads and writes made in between                 TODO.md, unnamed/part_004
\* =========================================================================
StInit ==
  /\ ready = FALSE
  /\ saveInterval = TRUE
  /\ stOp = [op |-> "none"]

dbUpdateAll_replacing(rows, held) == held

\* The adapter's updateUser / updateFaction / updateDramaEvent for every entity
\* held in memory: UPDATE ... WHERE id = ..., which changes the row if there is
\* one and is no error if there is none.
dbUpdateAll(rows, held) ==
  [id \in DOMAIN rows |-> IF id \in DOMAIN held THEN held[id] ELSE rows[id]]

saveState_inserting(st, evs, rows, isReady, ok) ==
  IF ~isReady \/ ~ok THEN [st |-> st, dbEvents |-> rows]
  ELSE [st |-> [st EXCEPT !.dbUsers = dbUpdateAll(@, st.users),
                          !.dbFactions = dbUpdateAll(@, st.factions)],
        dbEvents |-> [id \in DOMAIN rows \cup {Cardinality(DOMAIN rows) + 1} |->
                        IF id \in DOMAIN evs THEN evs[id]
                        ELSE IF id \in DOMAIN rows THEN rows[id] ELSE <<>>]]

\* saveState: nothing before initialisation; otherwise every user, faction and
\* event in memory is sent to the adapter.  ok: the adapter's calls succeed
\* (on an error the adapter logs and resolves to false; nothing is thrown).
saveState(st, evs, rows, isReady, ok) ==
  IF ~isReady \/ ~ok THEN [st |-> st, dbEvents |-> rows]
  ELSE [st |-> [st EXCEPT !.dbUsers = dbUpdateAll(@, st.users),
                          !.dbFactions = dbUpdateAll(@, st.factions)],
        dbEvents |-> dbUpdateAll(rows, evs)]

\* initialize: loadState reads the recent events back, then the factions they
\* name and the members of those factions (the events logged here name no
\* faction, so the two maps are left cleared), and ready is set.
StoreInitialize ==
  /\ ~ready
  /\ ready' = TRUE
  /\ events' = dbEvents
  /\ users' = <<>>
  /\ wsFactions' = <<>>
  /\ stOp' = [op |-> "initialize"]
  /\ UNCHANGED <<cache, dbUsers, dbFactions, wsNow, nextStoreFactionId, wsDeleted, wsCalls>>
  /\ UNCHANGED <<dbEvents, writing, nextEventId, evOp, saveInterval>>
  /\ UNCHANGED stOther

\* The auto-save interval fires: saveState().catch(log)
StoreAutoSave(ok) ==
  LET r == saveState(CurWS, events, dbEvents, ready, ok)
  IN /\ saveInterval
     /\ dbUsers' = r.st.dbUsers
     /\ dbFactions' = r.st.dbFactions
     /\ dbEvents' = r.dbEvents
     /\ stOp' = [op |-> "autoSave", attempted |-> ready, ok |-> ok]
     /\ UNCHANGED <<users, wsFactions, cache, wsNow, nextStoreFactionId, wsDeleted, wsCalls>>
     /\ UNCHANGED <<events, writing, nextEventId, evOp, ready, saveInterval>>
     /\ UNCHANGED stOther

\* destroy: clearInterval, saveState, and finally the four maps are cleared.
StoreDestroy(ok) ==
  LET r == saveState(CurWS, events, dbEvents, ready, ok)
  IN /\ saveInterval' = FALSE
     /\ dbUsers' = r.st.dbUsers
     /\ dbFactions' = r.st.dbFactions
     /\ dbEvents' = r.dbEvents
     /\ users' = <<>>
     /\ wsFactions' = <<>>
     /\ events' = <<>>
     /\ cache' = <<>>
     /\ stOp' = [op |-> "destroy", threw |-> FALSE, flushed |-> ready /\ ok]
     /\ UNCHANGED <<wsNow, nextStoreFactionId, wsDeleted, wsCalls>>
     /\ UNCHANGED <<writing, nextEventId, evOp, ready>>
     /\ UNCHANGED stOther

StoreGetUser(userId, okGet) ==
  LET g == getUser(CurWS, userId, okGet)
  IN /\ wsCalls < MaxLifeCalls
     /\ SetWS(g.st)
     /\ stOp' = [op |-> "getUser", id |-> userId, found |-> g.found, threw |-> g.threw,
                 failed |-> ~okGet,
                 missed |-> userId \notin DOMAIN users
                              /\ (~okGet \/ userId \notin DOMAIN dbUsers)]
     /\ UNCHANGED <<wsNow, nextStoreFactionId, wsDeleted>>
     /\ UNCHANGED <<evVars, ready, saveInterval>>
     /\ UNCHANGED stOther

StoreGetFaction(factionId, okGet) ==
  LET g == getFaction(CurWS, factionId, okGet)
  IN /\ wsCalls < MaxLifeCalls
     /\ SetWS(g.st)
     /\ stOp' = [op |-> "getFaction", id |-> factionId, found |-> g.found,
                 threw |-> g.threw, failed |-> ~okGet,
                 missed |-> factionId \notin DOMAIN wsFactions
                              /\ ~getFromCache(CurWS, <<"faction", factionId>>).hit
                              /\ (~okGet \/ factionId \notin DOMAIN dbFactions)]
     /\ UNCHANGED <<wsNow, nextStoreFactionId, wsDeleted>>
     /\ UNCHANGED <<evVars, ready, saveInterval>>
     /\ UNCHANGED stOther

StoreGetOrCreateUser(userId, okGet, okSave) ==
  /\ wsCalls < MaxLifeCalls
  /\ SetWS(getOrCreateUser(CurWS, userId, okGet, okSave))
  /\ stOp' = [op |-> "getOrCreateUser", id |-> userId, failed |-> ~okGet,
              inMemory |-> userId \in DOMAIN users,
              found |-> getUser(CurWS, userId, okGet).found,
              before |-> IF userId \in DOMAIN users THEN users[userId]
                         ELSE IF userId \in DOMAIN dbUsers THEN dbUsers[userId]
                         ELSE ZeroUser]
  /\ UNCHANGED <<wsNow, nextStoreFactionId, wsDeleted>>
  /\ UNCHANGED <<evVars, ready, saveInterval>>
  /\ UNCHANGED stOther

StoreCreateFaction(name, creatorId, okF, okGet, okSave, okUpd) ==
  /\ wsCalls < MaxLifeCalls
  /\ nextStoreFactionId <= MaxStoreFactions
  /\ SetWS(createFaction(CurWS, nextStoreFactionId, name, creatorId, okF, okGet, okSave, okUpd))
  /\ nextStoreFactionId' = nextStoreFactionId + 1
  /\ stOp' = [op |-> "createFaction", id |-> nextStoreFactionId]
  /\ UNCHANGED <<wsNow, wsDeleted>>
  /\ UNCHANGED <<evVars, ready, saveInterval>>
  /\ UNCHANGED stOther

\* logDramaEvent running on after its await, as one of the counted store calls.
StoreLogDramaEvent(id, okLog, okGet, okUpd) ==
  /\ wsCalls < MaxLifeCalls
  /\ LogDramaEventSettle(id, okLog, okGet, okUpd)

StoreNext ==
  \/ StoreInitialize
  \/ \E ok \in BOOLEAN : StoreAutoSave(ok)
  \/ \E ok \in BOOLEAN : StoreDestroy(ok)
  \/ \E u \in StoreUserIds, ok \in BOOLEAN : StoreGetUser(u, ok)
  \/ \E f \in StoreFactionIds, ok \in BOOLEAN : StoreGetFaction(f, ok)
  \/ \E u \in StoreUserIds, ok1 \in BOOLEAN, ok2 \in BOOLEAN : StoreGetOrCreateUser(u, ok1, ok2)
  \/ \E u \in StoreUserIds, ok1 \in BOOLEAN, ok2 \in BOOLEAN, ok3 \in BOOLEAN,
        ok4 \in BOOLEAN : StoreCreateFaction("Wolves", u, ok1, ok2, ok3, ok4)
  \/ LogDramaEventIssue({})
  \/ \E id \in 1..MaxEvents, ok \in BOOLEAN : StoreLogDramaEvent(id, ok, TRUE, TRUE)

\* The tasks registered with setInterval whose handlers are modelled here: the
\* Store's own auto-save (the only one whose handle is kept and cleared) and
\* bot.ts's module-level world_state.json auto-save.
ScheduledTasks == {"autoSave", "botAutoSave"}

\* bot.ts: setInterval(() => saveWorldState(world), 5 min). The handle is
\* dropped, so nothing (Store.destroy included) ever disarms it.
BotAutoSave ==
  /\ worldFile' = <<world>>
  /\ stOp' = [op |-> "botAutoSave"]
  /\ UNCHANGED <<world, lastTrigger, dramaTracker, dramaScores, recentMessages, buffer,
                 lastEventTime, announcements, botNow, msgCount, botOp>>
  /\ UNCHANGED <<fsVars, wsVars, ddVars, busVars, evVars, ready, saveInterval, lateVars>>

TimersNext ==
  \/ StoreInitialize
  \/ \E ok \in BOOLEAN : StoreAutoSave(ok)
  \/ \E ok \in BOOLEAN : StoreDestroy(ok)
  \/ \E u \in StoreUserIds, ok1 \in BOOLEAN, ok2 \in BOOLEAN : StoreGetOrCreateUser(u, ok1, ok2)
  \/ \E u \in StoreUserIds, ok1 \in BOOLEAN, ok2 \in BOOLEAN, ok3 \in BOOLEAN,
        ok4 \in BOOLEAN : StoreCreateFaction("Wolves", u, ok1, ok2, ok3, ok4)
  \/ BotAutoSave

\* =========================================================================
\* serverControlPlugin                    plugins/server-control/index.ts
\* =========================================================================
\* Time is counted in units of four hours.
MINUTES_PER_UNIT == 240
DECAY_PERCENT == 1             \* decay = 0.01 per minute
REORG_COOLDOWN == 6            \* reorgCooldown: 86400000
SERVER_CHAOS_THRESHOLD == 80
ENABLE_SERVER_RESTRUCTURING == TRUE
ScKeywords == {"war", "fight", "battle", "attack", "betray", "overthrow"}

ScInit ==
  /\ chaosLevel = 0
  /\ scNow = 0
  /\ lastReorganization = scNow - REORG_COOLDOWN
  /\ reorgRunning = 0
  /\ scOp = [op |-> "load", at |-> 0, score |-> 0, started |-> FALSE]

\* calculateDramaScore: content without a lower-case letter, '!' count,
\* mentioned users, keywords.
calculateDramaScore(m) ==
  Min(100, (IF m.upper = m.letters THEN 10 ELSE 0) + m.exclamations
           + 5 * Len(m.mentions) + 5 * Cardinality(m.words \cap ScKeywords))

\* updateChaosLevel: the new level loses 1% of itself per minute elapsed
\* since the last reorganization.
updateChaosLevel(chaos, score, now, lastReorg) ==
  LET newChaos == Min(100, chaos + score)
      timeSinceLast == (now - lastReorg) * MINUTES_PER_UNIT
  IN Max(0, newChaos - (newChaos * DECAY_PERCENT * timeSinceLast) \div 100)

shouldReorganizeServer(chaos, now, lastReorg) ==
  /\ ENABLE_SERVER_RESTRUCTURING
  /\ ~(now - lastReorg < REORG_COOLDOWN)
  /\ chaos >= SERVER_CHAOS_THRESHOLD

\* onMessage up to its await: the chaos level is updated and, when a
\* reorganization is due, reorganizeServer is entered.
ScOnMessage(m) ==
  LET score == calculateDramaScore(m)
      chaos == updateChaosLevel(chaosLevel, score, scNow, lastReorganization)
      start == ~m.bot /\ shouldReorganizeServer(chaos, scNow, lastReorganization)
  IN /\ chaosLevel' = IF m.bot THEN chaosLevel ELSE chaos
     /\ reorgRunning' = IF start THEN reorgRunning + 1 ELSE reorgRunning
     /\ scOp' = [op |-> IF m.bot THEN "skipped" ELSE "message",
                 at |-> IF m.bot THEN scOp.at ELSE scNow,
                 score |-> IF m.bot THEN 0 ELSE score, started |-> start]
     /\ UNCHANGED <<lastReorganization, scNow>>
     /\ UNCHANGED scOther

\* reorganizeServer after its awaits: the level and the timer are reset,
\* unless one of the awaited calls threw (caught and logged).
ScReorganized(ok) ==
  /\ reorgRunning > 0
  /\ reorgRunning' = reorgRunning - 1
  /\ chaosLevel' = IF ok THEN 0 ELSE chaosLevel
  /\ lastReorganization' = IF ok THEN scNow ELSE lastReorganization
  /\ scOp' = [op |-> "reorganized", at |-> scNow, score |-> 0, started |-> FALSE]
  /\ UNCHANGED scNow
  /\ UNCHANGED scOther

ScTick ==
  /\ scNow < MaxScTime
  /\ scNow' = scNow + 1
  /\ UNCHANGED <<chaosLevel, lastReorganization, reorgRunning, scOp>>
  /\ UNCHANGED scOther

ScNext ==
  \/ \E m \in Arrivals : ScOnMessage(m)
  \/ ScTick

\* The plug-in with the completion of reorganizeServer.
ScFullNext ==
  \/ ScNext
  \/ \E ok \in BOOLEAN : ScReorganized(ok)

\* =========================================================================
\* FactionSystemPlugin: the faction command             unnamed/part_009
\* =========================================================================
FcInit ==
  /\ fcReady = FALSE
  /\ fcClient = FALSE
  /\ fcOp = [op |-> "new"]

\* args[0] as typed; "" stands for an empty first argument and "none" for
\* no argument at all.
FcArgs == {"none", "", "help", "HELP", "unknown", "create", "Join", "leave",
           "info", "list"}

\* args[0]?.toLowerCase() || 'help'
subcommandOf(a) == IF a \in {"none", ""} THEN "help" ELSE toLowerCase(a)

\* What the selected handler sends, "none" when it returns before sending.
FcReply(sub, member) ==
  CASE sub = "create" -> IF member THEN "Faction creation is not yet implemented." ELSE "none"
    [] sub = "join" -> IF member THEN "Joining a faction is not yet implemented." ELSE "none"
    [] sub = "leave" -> IF member THEN "Leaving a faction is not yet implemented." ELSE "none"
    [] sub = "info" -> "Faction Information"
    [] sub = "list" -> "Factions"
    [] OTHER -> "Faction Commands"

FcOnLoad ==
  /\ fcClient' = TRUE
  /\ fcReady' = TRUE
  /\ fcOp' = [op |-> "load"]
  /\ UNCHANGED fcOther

FcOnUnload ==
  /\ fcReady' = FALSE
  /\ fcOp' = [op |-> "unload"]
  /\ UNCHANGED fcClient
  /\ UNCHANGED fcOther

\* handleFactionCommand. The handlers are returned, not awaited, inside the
\* try block, so a rejected send rejects the command's promise and the
\* catch clause is never entered.
handleFactionCommand(a, guild, member, sendOk) ==
  LET subcommand == subcommandOf(a)
      runs == fcReady /\ fcClient /\ guild
      reply == IF runs THEN FcReply(subcommand, member) ELSE "none"
  IN /\ fcOp' = [op |-> "command", loaded |-> fcReady, arg |-> a,
                 subcommand |-> subcommand, guild |-> guild, sent |-> sendOk,
                 reply |-> IF sendOk THEN reply ELSE "none",
                 rejected |-> reply # "none" /\ ~sendOk]
     /\ UNCHANGED <<fcReady, fcClient>>
     /\ UNCHANGED fcOther

FcNext ==
  \/ FcOnLoad
  \/ FcOnUnload
  \/ \E a \in FcArgs, guild \in BOOLEAN, member \in BOOLEAN, sendOk \in BOOLEAN :
       handleFactionCommand(a, guild, member, sendOk)

\* =========================================================================
\* dramaEventsPlugin.onMessage with concurrent handlers    unnamed/part_006
\* =========================================================================
\* onMessage awaits triggerDramaEvent before it writes lastEventTime; other
\* messages are handled during the await.
PlInit == plPending = <<>>

plBotRest == <<world, worldFile, lastTrigger, dramaTracker, dramaScores, recentMessages,
               buffer>>
plOutside == <<fsVars, wsVars, ddVars, busVars, evVars, stVars, plLate>>

\* onMessage up to the await: the cooldown check, the keyword match and the
\* random draw; a handler that passes them enters triggerDramaEvent.
PluginOnMessageStart(m, random) ==
  /\ msgCount < MaxMessages
  /\ msgCount' = msgCount + 1
  /\ LET cooling == botNow - lastEventTime < PLUGIN_COOLDOWN
         matched == matchedEventType(m.words)
         fire == ~m.bot /\ ~cooling /\ matched # "none" /\ random
     IN /\ plPending' = IF fire
                        THEN Append(plPending, [type |-> matched, now |-> botNow,
                                                author |-> m.author])
                        ELSE plPending
        /\ botOp' = [NoOp EXCEPT !.op = "pluginStart", !.gated = ~m.bot /\ cooling,
                                 !.scenario = (m = ScenarioA)]
  /\ UNCHANGED <<lastEventTime, announcements, botNow>>
  /\ UNCHANGED plBotRest
  /\ UNCHANGED plOutside

\* The rest of onMessage for the i-th awaiting handler: the announcement is
\* posted when the channel exists and the send resolves, and lastEventTime
\* becomes the handler's now unless triggerDramaEvent threw.
PluginOnMessageSettle(i, channel) ==
  /\ i \in DOMAIN plPending
  /\ LET h == plPending[i]
         posted == channel \in {"ok", "reactFails"}
     IN /\ announcements' = IF posted
                            THEN Append(announcements,
                                        [type |-> h.type, timestamp |-> botNow,
                                         participants |-> <<h.author>>])
                            ELSE announcements
        /\ lastEventTime' = IF channel \in {"ok", "missing"} THEN h.now
                            ELSE lastEventTime
        /\ botOp' = [NoOp EXCEPT !.op = "pluginSettle",
                                 !.created = IF posted THEN << <<h.author>> >> ELSE <<>>]
  /\ plPending' = [k \in 1..(Len(plPending) - 1) |->
                     IF k < i THEN plPending[k] ELSE plPending[k + 1]]
  /\ UNCHANGED <<msgCount, botNow>>
  /\ UNCHANGED plBotRest
  /\ UNCHANGED plOutside

PlTick ==
  /\ botNow < MaxBotTime
  /\ botNow' = botNow + 1
  /\ UNCHANGED <<lastEventTime, announcements, msgCount, botOp, plPending>>
  /\ UNCHANGED plBotRest
  /\ UNCHANGED plOutside

PlNext ==
  \/ \E m \in Arrivals, random \in BOOLEAN : PluginOnMessageStart(m, random)
  \/ \E i \in 1..MaxMessages, channel \in Channels : PluginOnMessageSettle(i, channel)
  \/ PlTick

\* =========================================================================
\* WorldStateManager.getOrCreateUser and updateUser, concurrent callers
\*                                                               TODO.md
\* =========================================================================
\* One previously unseen user id; every caller runs getOrCreateUser for it
\* and may then change the user it got and call updateUser.  Objects are
\* named by the caller that made them (a new user, or the copy of the row
\* db.getUser returns).  The TTL cache is left out: it only ever holds the
\* object that users holds.
Handlers == 1..MaxHandlers
NoRow == -1
NoObject == [karma |-> NoRow]

GuInit ==
  /\ guUsers = 0
  /\ guDb = NoRow
  /\ guHeap = [h \in Handlers |-> NoObject]
  /\ guRef = [h \in Handlers |-> 0]
  /\ guPc = [h \in Handlers |-> "idle"]

\* getOrCreateUser -> getUser up to await db.getUser: a hit in users returns.
GuCall(h) ==
  /\ guPc[h] = "idle"
  /\ IF guUsers # 0
     THEN /\ guRef' = [guRef EXCEPT ![h] = guUsers]
          /\ guPc' = [guPc EXCEPT ![h] = "have"]
     ELSE /\ guPc' = [guPc EXCEPT ![h] = "getting"]
          /\ UNCHANGED guRef
  /\ UNCHANGED <<guUsers, guDb, guHeap>>
  /\ UNCHANGED guOther

\* db.getUser resolves: a row is stored in users and returned; without a row
\* (or with a failed query, which the adapter answers with null) a new user
\* is constructed and db.saveUser awaited.
GuGot(h, ok) ==
  /\ guPc[h] = "getting"
  /\ IF ok /\ guDb # NoRow
     THEN /\ guHeap' = [guHeap EXCEPT ![h] = [karma |-> guDb]]
          /\ guUsers' = h
          /\ guRef' = [guRef EXCEPT ![h] = h]
          /\ guPc' = [guPc EXCEPT ![h] = "have"]
     ELSE /\ guHeap' = [guHeap EXCEPT ![h] = [karma |-> 0]]
          /\ guRef' = [guRef EXCEPT ![h] = h]
          /\ guPc' = [guPc EXCEPT ![h] = "saving"]
          /\ UNCHANGED guUsers
  /\ UNCHANGED guDb
  /\ UNCHANGED guOther

\* db.saveUser(user) resolves in getOrCreateUser: users.set(userId, user).
GuSaved(h, ok) ==
  /\ guPc[h] = "saving"
  /\ guDb' = IF ok THEN guHeap[guRef[h]].karma ELSE guDb
  /\ guUsers' = guRef[h]
  /\ guPc' = [guPc EXCEPT ![h] = "have"]
  /\ UNCHANGED <<guHeap, guRef>>
  /\ UNCHANGED guOther

\* The caller changes the user it holds and calls updateUser, up to its
\* await db.saveUser.
GuUpdateUser(h) ==
  /\ guPc[h] = "have"
  /\ guHeap' = [guHeap EXCEPT ![guRef[h]].karma = @ + 1]
  /\ guPc' = [guPc EXCEPT ![h] = "updating"]
  /\ UNCHANGED <<guUsers, guDb, guRef>>
  /\ UNCHANGED guOther

\* db.saveUser resolves in updateUser: users.set(user.id, user).
GuUpdated(h, ok) ==
  /\ guPc[h] = "updating"
  /\ guDb' = IF ok THEN guHeap[guRef[h]].karma ELSE guDb
  /\ guUsers' = guRef[h]
  /\ guPc' = [guPc EXCEPT ![h] = "updated"]
  /\ UNCHANGED <<guHeap, guRef>>
  /\ UNCHANGED guOther

\* The caller ends without an update.
GuReturn(h) ==
  /\ guPc[h] = "have"
  /\ guPc' = [guPc EXCEPT ![h] = "returned"]
  /\ UNCHANGED <<guUsers, guDb, guHeap, guRef>>
  /\ UNCHANGED guOther

GuNext ==
  \/ \E h \in Handlers : GuCall(h)
  \/ \E h \in Handlers, ok \in BOOLEAN : GuGot(h, ok)
  \/ \E h \in Handlers, ok \in BOOLEAN : GuSaved(h, ok)
  \/ \E h \in Handlers : GuUpdateUser(h)
  \/ \E h \in Handlers, ok \in BOOLEAN : GuUpdated(h, ok)
  \/ \E h \in Handlers : GuReturn(h)

\* =========================================================================
\* The ids of DramaEvents       bot/bot.ts, engine/eventGenerator.ts,
\*                              core/dramaAnalytics.ts, unnamed/part_004
\* =========================================================================
IdInit ==
  /\ msNow = 0
  /\ createdEvents = <<>>
  /\ localDramaEvents = <<>>
  /\ lastEventId = 0

\* The id each place gives to the event it constructs: a prefix and Date.now().
EventIdPrefixes == {"event-", "coup-", "plot-twist-"}
eventId(prefix, now) == <<prefix, now>>

\* bot.ts messageCreate ('event-'), CoupEvent.execute ('coup-') and
\* triggerPlotTwist ('plot-twist-') construct an event.  The generator's
\* cooldown of one hour lets CoupEvent run once in the milliseconds counted.
IdCreateEvent(prefix, participant) ==
  /\ Len(createdEvents) < MaxCreated
  /\ prefix = "coup-" => \A i \in DOMAIN createdEvents : createdEvents[i].id[1] # "coup-"
  /\ createdEvents' = Append(createdEvents,
                             [id |-> eventId(prefix, msNow), timestamp |-> msNow,
                              participants |-> <<participant>>])
  /\ UNCHANGED <<msNow, localDramaEvents, lastEventId>>
  /\ UNCHANGED idOther

\* logLocalDramaEvent(event): localStore.dramaEvents.set(event.id, event).
logLocalDramaEvent(i) ==
  /\ i \in DOMAIN createdEvents
  /\ lastEventId < MaxCreated
  /\ localDramaEvents' = Put(localDramaEvents, createdEvents[i].id, createdEvents[i])
  /\ lastEventId' = lastEventId + 1
  /\ UNCHANGED <<msNow, createdEvents>>
  /\ UNCHANGED idOther

IdTick ==
  /\ msNow < MaxMs
  /\ msNow' = msNow + 1
  /\ UNCHANGED <<createdEvents, localDramaEvents, lastEventId>>
  /\ UNCHANGED idOther

IdNext ==
  \/ \E prefix \in EventIdPrefixes, u \in Authors : IdCreateEvent(prefix, u)
  \/ \E i \in 1..MaxCreated : logLocalDramaEvent(i)
  \/ IdTick

\* =========================================================================
\* PluginManager                                      unnamed/part_014
\* =========================================================================
\* Three plug-ins in a chain of dependencies.
PluginIds == {"core", "addon", "extra"}
dependencies(p) ==
  CASE p = "core" -> {}
    [] p = "addon" -> {"core"}
    [] OTHER -> {"addon"}
PluginEvents == {"message", "ready", "shutdown"}

PmInit ==
  /\ plugins = {}
  /\ pmOp = [op |-> "new"]

\* loadPlugin: the module must exist, the id must not be loaded, every
\* dependency must be loaded; a plug-in disabled in its configuration is
\* returned without being loaded; onLoad may throw.
loadPlugin(p, exists, enabled, onLoadOk) ==
  LET result == IF ~exists THEN "throw"
                ELSE IF p \in plugins THEN "throw"
                ELSE IF ~(dependencies(p) \subseteq plugins) THEN "throw"
                ELSE IF ~enabled THEN "disabled"
                ELSE IF ~onLoadOk THEN "throw"
                ELSE "loaded"
  IN /\ plugins' = IF result = "loaded" THEN plugins \cup {p} ELSE plugins
     /\ pmOp' = [op |-> "load", id |-> p, result |-> result]
     /\ UNCHANGED pmOther

\* What unloadPlugin(pluginId, force) leaves loaded and what it answers.
unloadPlugin(loaded, p, force, onUnloadOk) ==
  LET dependents == {q \in loaded : p \in dependencies(q)}
  IN IF p \notin loaded THEN [plugins |-> loaded, result |-> "false"]
     ELSE IF ~force /\ dependents # {} THEN [plugins |-> loaded, result |-> "throw"]
     ELSE IF ~force /\ ~onUnloadOk THEN [plugins |-> loaded, result |-> "throw"]
     ELSE [plugins |-> loaded \ {p}, result |-> "true"]

PmUnloadPlugin(p, force, onUnloadOk) ==
  LET r == unloadPlugin(plugins, p, force, onUnloadOk)
  IN /\ plugins' = r.plugins
     /\ pmOp' = [op |-> "unload", id |-> p, force |-> force, result |-> r.result]
     /\ UNCHANGED pmOther

\* emit(event): every loaded plug-in's handler runs; a plug-in whose handler
\* throws is unloaded with force, except on shutdown, which clears the map.
emitPlugins(loaded, event, throwing) ==
  IF event = "shutdown" THEN {}
  ELSE loaded \ throwing

PmEmit(event, throwing) ==
  /\ plugins' = emitPlugins(plugins, event, throwing)
  /\ pmOp' = [op |-> "emit", event |-> event, threw |-> throwing \cap plugins]
  /\ UNCHANGED pmOther

PmNext ==
  \/ \E p \in PluginIds, exists \in BOOLEAN, enabled \in BOOLEAN, ok \in BOOLEAN :
        loadPlugin(p, exists, enabled, ok)
  \/ \E p \in PluginIds, force \in BOOLEAN, ok \in BOOLEAN : PmUnloadPlugin(p, force, ok)
  \/ \E event \in PluginEvents, throwing \in SUBSET PluginIds : PmEmit(event, throwing)

\* =========================================================================
\* ActionDispatcher: special modes                     config.example.ts
\* =========================================================================
\* A mode's entry keeps its duration and the minutes elapsed since its
\* startTime, counted up to one past the duration.
ModeIds == {"trial", "crisis"}
Durations == 1..MaxDuration
EndOutcomes == {"done", "skipped", "failBefore", "failAfter"}

MdInit ==
  /\ activeModes = <<>>
  /\ ending = <<>>
  /\ endRuns = [m \in ModeIds |-> 0]
  /\ mdOp = [op |-> "new"]

expired(config) == config.elapsed > config.duration

\* activateTrialByDrama / activateCrisisMode: once the channel (guild) and
\* the member are fetched the mode is set, whatever the announcement does.
ActivateMode(modeId, durationMs, fetched) ==
  /\ activeModes' = IF fetched
                    THEN Put(activeModes, modeId,
                             [enabled |-> TRUE, duration |-> durationMs, elapsed |-> 0])
                    ELSE activeModes
  /\ endRuns' = IF fetched THEN [endRuns EXCEPT ![modeId] = 0] ELSE endRuns
  /\ mdOp' = [op |-> "activate", mode |-> modeId, set |-> fetched]
  /\ UNCHANGED ending
  /\ UNCHANGED mdOther

\* checkActiveModes, run by setInterval every minute: disableSpecialMode is
\* called, and not awaited, for every expired mode; each call runs up to the
\* await of its end handler.
CheckActiveModes ==
  LET due == {m \in DOMAIN activeModes : expired(activeModes[m]) /\ activeModes[m].enabled}
      calls == IF "trial" \in due
               THEN IF "crisis" \in due THEN <<"trial", "crisis">> ELSE <<"trial">>
               ELSE IF "crisis" \in due THEN <<"crisis">> ELSE <<>>
  IN /\ Len(ending) + Len(calls) <= MaxPending
     /\ ending' = ending \o calls
     /\ mdOp' = [op |-> "check", due |-> due]
     /\ UNCHANGED <<activeModes, endRuns>>
     /\ UNCHANGED mdOther

\* The first awaiting disableSpecialMode goes on: the end handler has
\* announced the verdict (unlocked the channels) or not, and has returned or
\* thrown; the mode is deleted only when it returned.
DisableSpecialModeSettle(outcome) ==
  /\ ending # <<>>
  /\ LET modeId == Head(ending)
         acted == outcome \in {"done", "failAfter"}
         returned == outcome \in {"done", "skipped"}
     IN /\ endRuns' = IF acted
                      THEN [endRuns EXCEPT ![modeId] = Min(MaxEndRuns, @ + 1)]
                      ELSE endRuns
        /\ activeModes' = IF returned /\ modeId \in DOMAIN activeModes
                          THEN Del(activeModes, modeId) ELSE activeModes
        /\ mdOp' = [op |-> "ended", mode |-> modeId, outcome |-> outcome]
  /\ ending' = Tail(ending)
  /\ UNCHANGED mdOther

\* A minute passes.
MdTick ==
  /\ \E m \in DOMAIN activeModes : ~expired(activeModes[m])
  /\ activeModes' = [m \in DOMAIN activeModes |->
                       [activeModes[m] EXCEPT !.elapsed = Min(activeModes[m].duration + 1, @ + 1)]]
  /\ mdOp' = [op |-> "tick"]
  /\ UNCHANGED <<ending, endRuns>>
  /\ UNCHANGED mdOther

MdNext ==
  \/ \E m \in ModeIds, d \in Durations, fetched \in BOOLEAN : ActivateMode(m, d, fetched)
  \/ CheckActiveModes
  \/ \E outcome \in EndOutcomes : DisableSpecialModeSettle(outcome)
  \/ MdTick

LateInit == ScInit /\ FcInit /\ PlInit /\ GuInit /\ IdInit /\ PmInit /\ MdInit

vars == <<fsVars, wsVars, botVars, ddVars, busVars, evVars, stVars, lateVars>>

Init == FSInit /\ WSInit /\ BotInit /\ DDStart(FALSE) /\ BusInit /\ EvInit /\ StInit /\ LateInit

InitDD == FSInit /\ WSInit /\ BotInit /\ DDInit /\ BusInit /\ EvInit /\ StInit /\ LateInit

SpecFS == Init /\ [][FSNext]_vars

SpecPower == Init /\ [][PowerNext]_vars

SpecWS == Init /\ [][WSNext]_vars

SpecBot == Init /\ [][BotNext]_vars

SpecScore == Init /\ [][ScoreNext]_vars

InitBuf == FSInit /\ WSInit /\ BufInit /\ DDStart(FALSE) /\ BusInit /\ EvInit /\ StInit /\ LateInit

SpecBuffers == InitBuf /\ [][BufNext]_vars

SpecDD == InitDD /\ [][DDNext]_vars

SpecBus == Init /\ [][BusNext]_vars

SpecEvents == Init /\ [][EvNext]_vars

SpecStore == Init /\ [][StoreNext]_vars

SpecEvUpdate == Init /\ [][EvUpdateNext]_vars

SpecSc == Init /\ [][ScNext]_vars

SpecFc == Init /\ [][FcNext]_vars

SpecPl == Init /\ [][PlNext]_vars

SpecGu == Init /\ [][GuNext]_vars

SpecId == Init /\ [][IdNext]_vars

SpecPm == Init /\ [][PmNext]_vars

SpecMd == Init /\ [][MdNext]_vars

\* The dispatcher with its clock, its minute timer and its awaits going on.
SpecMdFair ==
  /\ Init /\ [][MdNext]_vars
  /\ WF_vars(MdTick) /\ WF_vars(CheckActiveModes)
  /\ WF_vars(\E outcome \in EndOutcomes : DisableSpecialModeSettle(outcome))

SpecTimers == Init /\ [][TimersNext]_vars

\* =========================================================================
\* Properties of FactionSystem (checked under SpecFS)
\* =========================================================================

\* C2: a user who belongs to faction F1 and asks to join a different faction
\* F2 is rejected (joinFaction returns false) and stays mapped to F1.
C2_JoinOtherFactionRejected ==
  (fsOp.op = "join" /\ fsOp.prev # NoFaction /\ fsOp.prev # fsOp.faction)
    => (fsOp.result = "false" /\ userFactions[fsOp.user] = fsOp.prev)

\* C3: when the user who leaves was the last member of the faction, the
\* faction is absent from getAllFactions() and no alliance references it.
C3_LastLeaveDissolves ==
  (fsOp.op = "leave" /\ fsOp.last)
    => /\ fsOp.faction \notin getAllFactions
       /\ \A i \in 1..Len(alliances) :
            alliances[i].factionIdA # fsOp.faction /\ alliances[i].factionIdB # fsOp.faction

\* C10: after any sequence of updateAllianceAura calls, every alliance's
\* aura score lies within [-10, 10].
C10_AuraWithinBounds ==
  \A i \in 1..Len(alliances) : alliances[i].auraScore \in -10..10

\* C10 witness: an update whose running sum left [-10, 10] has been applied
\* and the alliance is still there, at the negative extreme.
C10_Witness ==
  /\ fsOp.op = "updateAura" /\ fsOp.found /\ fsOp.beyond
  /\ \E i \in 1..Len(alliances) : alliances[i].auraScore = -10

\* C11: when an update brings an alliance's aura below -8 and the random
\* draw is true, the alliance is removed at once and exactly one DramaEvent
\* is emitted for it, carrying both factions of the alliance.
C11_PlotTwistDeletesAndEmits ==
  (fsOp.op = "updateAura" /\ fsOp.found /\ fsOp.low /\ fsOp.random)
    => /\ \A i \in 1..Len(alliances) : alliances[i].id # fsOp.id
       /\ Len(fsOp.published) = 1


\* The power a faction is to have: members, drama wins and alliances of the
\* faction, weighted as calculateFactionPower weights them, within [1,100].
PowerOf(factionId) ==
  Max(1, Min(100, factions[factionId].memberCount * 5 + factions[factionId].dramaWins * 10
                    + Cardinality({i \in 1..Len(alliances) :
                                     alliances[i].factionIdA = factionId
                                       \/ alliances[i].factionIdB = factionId}) * 8))

\* C15: a leave request by the sole leader of a faction (here: the user who
\* has just founded it and is its only member) is rejected, returning false,
\* and the user is still a member of the faction, which still exists.
C15_SoleLeaderLeaveRejected ==
  (fsOp.op = "leave" /\ fsOp.founder /\ fsOp.last)
    => /\ fsOp.result = "false"
       /\ userFactions[fsOp.user] = fsOp.faction
       /\ fsOp.faction \in DOMAIN factions

\* C14: after every membership or alliance change each faction's power is
\* the function of its member count, drama wins and alliance count, clamped
\* to [1,100].
C14_PowerIsRecomputed ==
  \A f \in DOMAIN factions :
    factions[f].power = PowerOf(f) /\ factions[f].power \in 1..100


\* =========================================================================
\* Properties of WorldStateManager (checked under SpecWS)
\* =========================================================================

\* C1: membership is mirrored in both directions: a user's factionId names a
\* faction of the store whose memberIds contain the user, and every member
\* of a faction that the store has loaded has that faction as factionId.
C1_MembershipMirrored ==
  /\ \A u \in DOMAIN users :
       users[u].factionId # NoFaction
         => /\ users[u].factionId \in DOMAIN wsFactions
            /\ u \in wsFactions[users[u].factionId].memberIds
  /\ \A f \in DOMAIN wsFactions : \A u \in wsFactions[f].memberIds :
       u \in DOMAIN users => users[u].factionId = f

\* C8: dissolved is terminal: a faction that deleteFaction has removed is
\* never again present in the store, whatever is called afterwards.
C8_DissolvedIsTerminal ==
  \A f \in wsDeleted : f \notin DOMAIN wsFactions

\* C9: createFaction refuses a name that already exists case-insensitively,
\* so the store never holds two factions whose names differ only in case.
C9_DuplicateNameRejected ==
  \A f \in DOMAIN wsFactions : \A g \in DOMAIN wsFactions :
    f # g => toLowerCase(wsFactions[f].name) # toLowerCase(wsFactions[g].name)

\* =========================================================================
\* Properties of the message pipeline (checked under SpecBot)
\* =========================================================================
Window(type) == IF type = "spotlight_challenge" THEN EVENT_COOLDOWN ELSE PLUGIN_COOLDOWN

Gated(timeline) ==
  \A i \in 1..Len(timeline) : \A j \in 1..Len(timeline) :
    (i < j /\ timeline[i].type = timeline[j].type)
      => timeline[j].timestamp - timeline[i].timestamp >= Window(timeline[i].type)

\* C4: of two qualifying messages of one trigger category that arrive less
\* than the cooldown window apart only the first creates a DramaEvent, so no
\* two events of one category lie closer than the window; a qualifying
\* message that arrives more than the window after the last one creates its
\* event.
C4_CooldownGating ==
  /\ Gated(world.dramaTimeline)
  /\ Gated(announcements)
  /\ (botOp.op = "messageCreate" /\ botOp.scored /\ ~botOp.gated /\ botOp.spaced)
       => Len(botOp.created) >= 1

\* C5: whatever the message, the score a scorer returns for it is an
\* integer between 0 and 10.
C5_ScoreBounded ==
  botOp.scored => botOp.score \in 0..10

\* C6: the Scenario A message (userA, caps ratio above 0.5, three
\* exclamation marks, mentions of userB and userC, not a reply) scores
\* exactly 5 and creates exactly one DramaEvent, with participants
\* userA, userB, userC in that order.
C6_ScenarioA ==
  (botOp.scenario /\ botOp.scored)
    => /\ botOp.score = 5
       /\ botOp.created = << <<"userA", "userB", "userC">> >>

\* C7: a message whose score does not exceed the threshold, or that arrives
\* while the cooldown runs, is handled without side effects: no DramaEvent
\* is created, no user or accumulated score changes, and no cooldown timer
\* is reset.
C7_NoSideEffectsWhenGated ==
  [][(msgCount' = msgCount + 1 /\ botOp'.gated)
       => UNCHANGED <<world, dramaScores, lastTrigger, lastEventTime, announcements>>]_vars

\* C20: a notifier or persistence failure while a message is handled is
\* swallowed and the handler completes: after the handler has run on a message
\* that is neither a bot's nor a command, it has reached its last statement,
\* saveWorldState, and the world file holds the current world.
C20_FailureSwallowed ==
  (botOp.op = "messageCreate" /\ botOp.scored) => worldFile = <<world>>

MustEnd(view) == view.score < NEGATIVE_SCORE \/ (view.stale /\ view.score <= 0)

C16_ThrowingSubscriberIsolated ==
  /\ busOp.op = "emit"
       => busOp.ran = (IF busOp.type \in DOMAIN handlers
                       THEN handlers[busOp.type] ELSE <<>>)
  /\ (busOp.op = "message" /\ busOp.published > 0) => busOp.ran = listeners

\* C17: each gateway callback is forwarded exactly once, however many times
\* the capture engine is initialised or constructed: an initialised engine
\* republishes the message once, and handleMessageCreate runs at most once.
C17_RepublishedExactlyOnce ==
  busOp.op = "message"
    => /\ initialised => busOp.published = 1
       /\ busOp.published <= 1
       /\ busOp.handled <= 1

\* C18: the world changes caused by an earlier message all take effect before
\* those caused by a later message.
C18_ProcessedInOrder ==
  \A i \in 1..Len(mutations) : \A j \in 1..Len(mutations) :
    i < j => mutations[i].msg <= mutations[j].msg

\* =========================================================================
\* Properties of WorldStateManager.logDramaEvent (checked under SpecEvents)
\* =========================================================================

\* C19: the store puts an entity into its in-memory map before it issues the
\* persistence call, so an event whose write is in flight is already in
\* this.events, and an event whose write has failed is in this.events.
C19_MemoryBeforePersistence ==
  /\ \A id \in DOMAIN writing : id \in DOMAIN events
  /\ (evOp.op = "logged" /\ ~evOp.saved) => evOp.id \in DOMAIN events

\* C28: logDramaEvent appends to a bounded timeline. The source configures no
\* maximum, so the bound is stated for a cap below the number of events the
\* model logs: the in-memory timeline never holds MaxEvents events.
C28_TimelineBounded ==
  Cardinality(DOMAIN events) < MaxEvents

\* C31: once a DramaEvent has resolved = true it is immutable: no later step
\* changes any of its fields or removes it (checked under SpecEvUpdate).
C31_ResolvedImmutable ==
  [][\A id \in DOMAIN events :
       events[id].resolved => (id \in DOMAIN events' /\ events'[id] = events[id])]_vars

\* C32: the chaos level decays linearly over the time elapsed since it was
\* last updated, at one percent of its value per minute, instead of being
\* reset: a message handled at the time of the previous update adds its
\* whole drama score.
C32_LinearDecay ==
  [][\A m \in Arrivals :
       (~m.bot /\ ScOnMessage(m))
         => chaosLevel' = updateChaosLevel(chaosLevel, calculateDramaScore(m),
                                           scNow, scOp.at)]_vars

\* C33: once the plug-in is loaded, a faction command whose subcommand is
\* missing or is none of create, join, leave, info, list is answered with the
\* 'Faction Commands' help, and the command does not fail.
C33_HelpByDefault ==
  (/\ fcOp.op = "command"
   /\ fcOp.loaded
   /\ fcOp.subcommand \notin {"create", "join", "leave", "info", "list"})
    => (fcOp.reply = "Faction Commands" /\ ~fcOp.rejected)

\* C34: of the keyword-matching messages handled concurrently at most one
\* triggers a drama event within one cooldown window: no two handlers are
\* inside triggerDramaEvent with times less than the cooldown apart.
C34_OneEventPerWindow ==
  \A i, j \in DOMAIN plPending :
    i < j => plPending[j].now - plPending[i].now >= PLUGIN_COOLDOWN

\* C36: after any sequence of create, join, leave and dissolve, the member
\* count stored with each faction is the number of users mapped to it
\* (checked under SpecFS).
C36_MemberCountMatches ==
  \A f \in DOMAIN factions :
    factions[f].memberCount = Cardinality(getFactionMembers(userFactions, f))

\* C37: when the callers of getOrCreateUser for one unseen id have all
\* ended, the record each of them holds has the contents of the one record
\* the store holds, and that record carries every update made through any
\* of them.
C37_OneRecordNoLostUpdate ==
  (\A h \in Handlers : guPc[h] \in {"updated", "returned"})
    => /\ \A h \in Handlers : guHeap[guRef[h]] = guHeap[guUsers]
       /\ guHeap[guUsers].karma = Cardinality({h \in Handlers : guPc[h] = "updated"})

\* C38: every DramaEvent created has an id different from the id of every
\* other DramaEvent, also when both are created in one millisecond.
C38_DistinctEventIds ==
  \A i, j \in DOMAIN createdEvents :
    i # j => createdEvents[i].id # createdEvents[j].id

\* C39: after any sequence of loadPlugin, unloadPlugin and emit calls every
\* loaded plug-in has all the plug-ins it depends on loaded.
C39_DependenciesLoaded ==
  \A p \in plugins : dependencies(p) \subseteq plugins

\* C40: every activated special mode is ended after its duration: the mode
\* leaves the active set, and its end handler has carried out its effect (the
\* verdict announcement, the unlocking of the channels) no more than once
\* (checked under SpecMdFair).
C40_ModeEndedOnce ==
  /\ \A m \in ModeIds : (m \in DOMAIN activeModes) ~> (m \notin DOMAIN activeModes)
  /\ [](\A m \in ModeIds : endRuns[m] <= 1)

\* =========================================================================
\* Properties of the WorldStateManager life cycle (checked under SpecStore)
\* =========================================================================

DestroyStep == stOp'.op = "destroy" /\ UNCHANGED <<writing, nextEventId>>

Destroyed ==
  /\ users = <<>> /\ wsFactions = <<>> /\ events = <<>> /\ cache = <<>>
  /\ ~saveInterval

C27_PersistedByFirstSuccess ==
  (stOp.op = "autoSave" /\ stOp.attempted /\ stOp.ok) =>
     /\ \A u \in DOMAIN users : u \in DOMAIN dbUsers /\ dbUsers[u] = users[u]
     /\ \A f \in DOMAIN wsFactions : f \in DOMAIN dbFactions /\ dbFactions[f] = wsFactions[f]

\* =========================================================================
\* Properties of the rolling buffers (checked under SpecBuffers)
\* =========================================================================

\* The entries of a buffer before a step, absent meaning empty.
RecentOf(recent, c) == IF c \in DOMAIN recent THEN recent[c] ELSE <<>>

\* A buffer over one step: left alone, or one new entry at its end, with the
\* oldest entry (the head) gone exactly when the buffer was full.
Rolled(old, new, cap) ==
  \/ new = old
  \/ /\ new # <<>>
     /\ new[Len(new)] \notin Range(old)
     /\ SubSeq(new, 1, Len(new) - 1) = IF Len(old) = cap THEN Tail(old) ELSE old

BufferStep ==
  /\ Len(buffer'.messages) <= MAX_MESSAGES
  /\ Len(buffer'.reactions) <= MAX_REACTIONS
  /\ Len(buffer'.voiceEvents) <= MAX_VOICE_EVENTS
  /\ Len(buffer'.mentionEvents) <= MAX_MENTION_EVENTS
  /\ Rolled(buffer.messages, buffer'.messages, MAX_MESSAGES)
  /\ Rolled(buffer.reactions, buffer'.reactions, MAX_REACTIONS)
  /\ Rolled(buffer.voiceEvents, buffer'.voiceEvents, MAX_VOICE_EVENTS)
  /\ Rolled(buffer.mentionEvents, buffer'.mentionEvents, MAX_MENTION_EVENTS)
  /\ DOMAIN recentMessages \subseteq DOMAIN recentMessages'
  /\ \A c \in DOMAIN recentMessages' :
        /\ Len(recentMessages'[c]) <= RECENT_MESSAGES_CAP
        /\ Rolled(RecentOf(recentMessages, c), recentMessages'[c], RECENT_MESSAGES_CAP)
  /\ Cardinality({c \in DOMAIN recentMessages' :
                    recentMessages'[c] # RecentOf(recentMessages, c)}) <= 1
  /\ (botOp'.op = "capture" /\ botOp'.scored) =>
        /\ buffer'.messages # buffer.messages
        /\ recentMessages' # recentMessages
  /\ botOp'.op = "reactionAdd" => buffer'.reactions # buffer.reactions
  /\ botOp'.op = "voiceStateUpdate" => buffer'.voiceEvents # buffer.voiceEvents

SkippedInput ==
  \/ \E m \in BufMessages : m.bot /\ (CaptureMessageCreate(m) \/ AnalyzeMessage(m))
  \/ \E m \in BufMessages, isCommand \in BOOLEAN, tox \in ToxicityResults, random \in BOOLEAN,
        sendOk \in BOOLEAN : m.bot /\ BotMessageCreate(m, isCommand, tox, random, sendOk)
  \/ \E m \in BufMessages, random \in BOOLEAN, channel \in Channels :
        m.bot /\ PluginOnMessage(m, random, channel)
  \/ \E partial \in BOOLEAN, fetchOk \in BOOLEAN : CaptureReactionAdd(TRUE, partial, fetchOk)
  \/ CaptureReactionAdd(FALSE, TRUE, FALSE)
  \/ CaptureVoiceStateUpdate(TRUE)

C25_NoTaskAfterDestroy ==
  stOp.op \in ScheduledTasks => saveInterval

====
